---- MODULE Spec2Model ----
(***************************************************************************)
(* OML: a small imperative language (tokenizer, parser, semantic analyzer, *)
(* tree-walking interpreter).  This module models the parser, the semantic *)
(* analyzer and the interpreter as the code computes them, and states the  *)
(* properties of the design document against them.                         *)
(***************************************************************************)
EXTENDS Integers, Sequences, FiniteSets, TLC

VARIABLES
  interp,     \* the OMLInterpreter instance: variables, functions, output, structTypes, the JS object heap, the events of the last statement
  analyzer,   \* the SemanticAnalyzer instance: scope chain, functions, structTypes, currentFunctionReturnType
  status,     \* "running" | "failed" (an exception left the top-level statement) | "hung"
  lastStmt,   \* the top-level statement executed by the last step
  nstmts,     \* number of top-level statements executed so far
  tokens,     \* the Parser instance's tokens (the input of a parse)
  parsed,     \* the outcome of Parser.parse() on tokens, once it has run
  program,    \* the statements of the ProgramNode handed to the analyzer
  outcomes,   \* the outcome of every ast.accept(semanticAnalyzer) so far
  tokenizer   \* the Tokenizer instance: code, position, line, column, and the progress of tokenize()

vars == <<interp, analyzer, status, lastStmt, nstmts, tokens, parsed, program, outcomes, tokenizer>>

(***************************************************************************)
(* Bounds of the model.                                                    *)
(***************************************************************************)
MaxStmts == 5      \* top-level statements per program
MaxIter == 3       \* loop iterations before a loop counts as not terminating
MaxDepth == 3      \* nested calls before a recursion counts as not terminating
MaxProgram == 3    \* statements of a program that is analyzed twice
MaxBody == 2       \* statements of a function body whose returns are searched

(***************************************************************************)
(* Runtime values.  A JS value is a record: k its kind, n the number, the  *)
(* boolean (0/1) or the heap address of an object or Error, s the         *)
(* characters of a string.  A number is an integer n (s empty), NaN, an    *)
(* infinity (n its sign), or a quotient that is not an integer: n over the  *)
(* denominator written after "/" in s, in lowest terms.  The rounding of   *)
(* doubles and the sign of zero are not kept.                              *)
(***************************************************************************)
Val(k, n, s) == [k |-> k, n |-> n, s |-> s]
Num(n) == Val("number", n, <<>>)
Str(s) == Val("string", 0, s)
Bool(b) == Val("boolean", IF b THEN 1 ELSE 0, <<>>)
Null == Val("null", 0, <<>>)
Undefined == Val("undefined", 0, <<>>)
Obj(r) == Val("object", r, <<>>)
Err(r) == Val("error", r, <<>>)
NaN == Val("number", 0, <<"NaN">>)
Infinity == Val("number", 1, <<"Infinity">>)
NegInfinity == Val("number", 0 - 1, <<"-Infinity">>)

(***************************************************************************)
(* AST nodes (ast.ts).  One record shape for every node class:             *)
(*   t      the node class                                                 *)
(*   name   name / operator / property                                     *)
(*   ty     declared type / return type: a type "number" is <<"number">>,  *)
(*          "array<T>" is <<"array">> \o T, "object<S>" is <<"object", S>> *)
(*   value  the value of a LiteralNode                                      *)
(*   names, types   parameter or field names and their types               *)
(*   a, b, c        child nodes (sequences)                                *)
(*   flag   PropertyAccessNode.isAssignment                                *)
(* The nodes the Parser builds carry names, operators and types as the     *)
(* text of their tokens, a sequence of characters: "number" is             *)
(* <<"n","u","m","b","e","r">>, the operator + is <<"+">>.                 *)
(***************************************************************************)
Node(t, name, ty, value, names, types, a, b, c, flag) ==
  [t |-> t, name |-> name, ty |-> ty, value |-> value, names |-> names,
   types |-> types, a |-> a, b |-> b, c |-> c, flag |-> flag]

NoNode == Node("None", "", <<>>, Undefined, <<>>, <<>>, <<>>, <<>>, <<>>, FALSE)

\* value is <<>> when the declaration has no initializer (null in the source)
VariableDeclarationNode(name, type, value) ==
  Node("VariableDeclaration", name, type, Undefined, <<>>, <<>>, value, <<>>, <<>>, FALSE)
AssignmentNode(nameOrObjectPath, value) ==
  Node("Assignment", "", <<>>, Undefined, <<>>, <<>>, <<nameOrObjectPath>>, <<value>>, <<>>, FALSE)
BinaryExpressionNode(left, operator, right) ==
  Node("BinaryExpression", operator, <<>>, Undefined, <<>>, <<>>, <<left>>, <<right>>, <<>>, FALSE)
LiteralNode(value) ==
  Node("Literal", "", <<>>, value, <<>>, <<>>, <<>>, <<>>, <<>>, FALSE)
IdentifierNode(name) ==
  Node("Identifier", name, <<>>, Undefined, <<>>, <<>>, <<>>, <<>>, <<>>, FALSE)
ObjectLiteralNode(keys, values) ==
  Node("ObjectLiteral", "", <<>>, Undefined, keys, <<>>, values, <<>>, <<>>, FALSE)
IndexAccessNode(object, index) ==
  Node("IndexAccess", "", <<>>, Undefined, <<>>, <<>>, <<object>>, <<index>>, <<>>, FALSE)
IndexAssignmentNode(object, index, value) ==
  Node("IndexAssignment", "", <<>>, Undefined, <<>>, <<>>, <<object>>, <<index>>, <<value>>, FALSE)
FunctionDeclarationNode(name, pnames, ptypes, returnType, body) ==
  Node("FunctionDeclaration", name, returnType, Undefined, pnames, ptypes, body, <<>>, <<>>, FALSE)
FunctionCallNode(name, args) ==
  Node("FunctionCall", name, <<>>, Undefined, <<>>, <<>>, args, <<>>, <<>>, FALSE)
BranchingNode(condition, trueBranch, falseBranch) ==
  Node("Branching", "", <<>>, Undefined, <<>>, <<>>, <<condition>>, trueBranch, falseBranch, FALSE)
LoopNode(condition, body) ==
  Node("Loop", "", <<>>, Undefined, <<>>, <<>>, <<condition>>, body, <<>>, FALSE)
OutputNode(value) ==
  Node("Output", "", <<>>, Undefined, <<>>, <<>>, <<value>>, <<>>, <<>>, FALSE)
UnaryExpressionNode(operator, operand) ==
  Node("UnaryExpression", operator, <<>>, Undefined, <<>>, <<>>, <<operand>>, <<>>, <<>>, FALSE)
ReturnNode(returnValue) ==
  Node("Return", "", <<>>, Undefined, <<>>, <<>>, <<returnValue>>, <<>>, <<>>, FALSE)
StructTypeNode(name, fnames, ftypes) ==
  Node("StructType", name, <<>>, Undefined, fnames, ftypes, <<>>, <<>>, <<>>, FALSE)
PropertyAccessNode(object, property, isAssignment) ==
  Node("PropertyAccess", property, <<>>, Undefined, <<>>, <<>>, <<object>>, <<>>, <<>>, isAssignment)
TypeConstructionNode(type, values) ==
  Node("TypeConstruction", "", type, Undefined, <<>>, <<>>, values, <<>>, <<>>, FALSE)


(***************************************************************************)
(* JS conversions used by the interpreter's operators.                     *)
(***************************************************************************)
Digits == <<"0", "1", "2", "3", "4", "5", "6", "7", "8", "9">>

\* characters in code-unit order, for the relational operators on strings
CharOrder == <<" ", "-", "0", "1", "2", "3", "4", "5", "6", "7", "8", "9", ":",
               "E", "N", "O", "[", "]", "a", "b", "c", "d", "e", "f", "j", "l",
               "n", "o", "r", "s", "t", "u", "x", "y", "z">>

CharCode(c) == IF \E i \in 1..Len(CharOrder) : CharOrder[i] = c
               THEN CHOOSE i \in 1..Len(CharOrder) : CharOrder[i] = c
               ELSE 0

RECURSIVE NumToChars(_)
NumToChars(n) ==
  IF n < 0 THEN <<"-">> \o NumToChars(0 - n)
  ELSE IF n < 10 THEN <<Digits[n + 1]>>
  ELSE NumToChars(n \div 10) \o <<Digits[(n % 10) + 1]>>

IsDigit(c) == \E i \in 1..10 : Digits[i] = c
DigitOf(c) == (CHOOSE i \in 1..10 : Digits[i] = c) - 1

RECURSIVE CharsToNum(_)
CharsToNum(s) ==
  IF s = <<>> THEN 0
  ELSE CharsToNum(SubSeq(s, 1, Len(s) - 1)) * 10 + DigitOf(s[Len(s)])

IsNaN(v) == v.k = "number" /\ v.s = <<"NaN">>
IsInfinite(v) == v.k = "number" /\ v.s \in {<<"Infinity">>, <<"-Infinity">>}
IsInteger(v) == v.k = "number" /\ v.s = <<>>

Abs(n) == IF n < 0 THEN 0 - n ELSE n
Sign(n) == IF n > 0 THEN 1 ELSE IF n < 0 THEN 0 - 1 ELSE 0

RECURSIVE GCD(_, _)
GCD(a, b) == IF b = 0 THEN a ELSE GCD(b, a % b)

\* the denominator of a finite number
Denominator(v) == IF v.s = <<>> THEN 1 ELSE CharsToNum(Tail(v.s))

\* the number p / q, for integers p and q # 0
Quotient(p, q) ==
  LET g == GCD(Abs(p), Abs(q))
      numerator == Sign(p) * Sign(q) * (Abs(p) \div g)
      denominator == Abs(q) \div g
  IN IF denominator = 1 THEN Val("number", numerator, <<>>)
     ELSE Val("number", numerator, <<"/">> \o NumToChars(denominator))

\* -v
Negate(v) ==
  IF IsNaN(v) THEN NaN
  ELSE IF IsInfinite(v) THEN (IF v.n > 0 THEN NegInfinity ELSE Infinity)
  ELSE [v EXCEPT !.n = 0 - v.n]

\* the digits after the decimal point of rest / denominator, at most `places`
RECURSIVE FractionDigits(_, _, _)
FractionDigits(rest, denominator, places) ==
  IF rest = 0 \/ places = 0 THEN <<>>
  ELSE <<Digits[((rest * 10) \div denominator) + 1]>>
         \o FractionDigits((rest * 10) % denominator, denominator, places - 1)

\* String(v) of a number; a quotient is written to at most 16 decimal places
NumberToString(v) ==
  IF IsNaN(v) THEN <<"N", "a", "N">>
  ELSE IF IsInfinite(v)
  THEN (IF v.n < 0 THEN <<"-">> ELSE <<>>) \o <<"I", "n", "f", "i", "n", "i", "t", "y">>
  ELSE IF IsInteger(v) THEN NumToChars(v.n)
  ELSE (IF v.n < 0 THEN <<"-">> ELSE <<>>)
         \o NumToChars(Abs(v.n) \div Denominator(v)) \o <<".">>
         \o FractionDigits(Abs(v.n) % Denominator(v), Denominator(v), 16)

\* String(v), as a template literal `${v}` yields it.  The message of an Error
\* is kept as one fragment of text.
JSToString(v, heap) ==
  CASE v.k = "string" -> v.s
    [] v.k = "number" -> NumberToString(v)
    [] v.k = "boolean" -> IF v.n = 1 THEN <<"t", "r", "u", "e">> ELSE <<"f", "a", "l", "s", "e">>
    [] v.k = "null" -> <<"n", "u", "l", "l">>
    [] v.k = "undefined" -> <<"u", "n", "d", "e", "f", "i", "n", "e", "d">>
    [] v.k = "object" -> <<"[", "o", "b", "j", "e", "c", "t", " ", "O", "b", "j", "e", "c", "t", "]">>
    [] v.k = "error" -> <<"E", "r", "r", "o", "r", ":", " ">> \o heap[v.n]["message"].s

\* Number(v)
JSToNumber(v) ==
  CASE v.k = "number" -> v
    [] v.k = "boolean" -> Num(v.n)
    [] v.k = "null" -> Num(0)
    [] v.k = "string" -> IF \A i \in 1..Len(v.s) : IsDigit(v.s[i]) \/ v.s[i] = " "
                         THEN Num(CharsToNum(SelectSeq(v.s, IsDigit)))
                         ELSE NaN
    [] OTHER -> NaN

\* ToPrimitive: objects become their string
JSToPrimitive(v, heap) ==
  IF v.k \in {"object", "error"} THEN Str(JSToString(v, heap)) ELSE v

Truthy(v) ==
  CASE v.k = "number" -> v.n # 0 /\ ~IsNaN(v)
    [] v.k = "string" -> v.s # <<>>
    [] v.k = "boolean" -> v.n = 1
    [] v.k \in {"null", "undefined"} -> FALSE
    [] OTHER -> TRUE

RECURSIVE StrLess(_, _)
StrLess(x, y) ==
  IF y = <<>> THEN FALSE
  ELSE IF x = <<>> THEN TRUE
  ELSE IF CharCode(Head(x)) # CharCode(Head(y)) THEN CharCode(Head(x)) < CharCode(Head(y))
  ELSE StrLess(Tail(x), Tail(y))

\* the numeric comparison of two primitives
NumLess(nl, nr) ==
  /\ ~IsNaN(nl) /\ ~IsNaN(nr)
  /\ IF IsInfinite(nl) \/ IsInfinite(nr)
     THEN (IF IsInfinite(nl) THEN nl.n ELSE 0) < (IF IsInfinite(nr) THEN nr.n ELSE 0)
     ELSE nl.n * Denominator(nr) < nr.n * Denominator(nl)
NumEq(nl, nr) == ~IsNaN(nl) /\ ~IsNaN(nr) /\ nl = nr

PrimLess(pl, pr) ==
  IF pl.k = "string" /\ pr.k = "string" THEN StrLess(pl.s, pr.s)
  ELSE NumLess(JSToNumber(pl), JSToNumber(pr))

PrimEq(pl, pr) ==
  IF pl.k = "string" /\ pr.k = "string" THEN pl.s = pr.s
  ELSE NumEq(JSToNumber(pl), JSToNumber(pr))

\* left < right
JSLess(l, r, heap) == PrimLess(JSToPrimitive(l, heap), JSToPrimitive(r, heap))

\* left == right (loose equality)
JSLooseEq(l, r, heap) ==
  IF l.k = r.k
  THEN CASE l.k = "number" -> NumEq(l, r)
         [] l.k = "string" -> l.s = r.s
         [] l.k \in {"null", "undefined"} -> TRUE
         [] OTHER -> l.n = r.n
  ELSE IF l.k \in {"null", "undefined"} \/ r.k \in {"null", "undefined"}
  THEN l.k \in {"null", "undefined"} /\ r.k \in {"null", "undefined"}
  ELSE IF l.k \in {"object", "error"} /\ r.k \in {"object", "error"} THEN FALSE
  ELSE PrimEq(JSToPrimitive(l, heap), JSToPrimitive(r, heap))

\* left <= right: the abstract relational comparison with the operands
\* swapped and negated; undefined (a NaN operand) gives false
PrimLessEq(pl, pr) ==
  IF pl.k = "string" /\ pr.k = "string" THEN ~StrLess(pr.s, pl.s)
  ELSE NumLess(JSToNumber(pl), JSToNumber(pr)) \/ NumEq(JSToNumber(pl), JSToNumber(pr))

JSLessEq(l, r, heap) == PrimLessEq(JSToPrimitive(l, heap), JSToPrimitive(r, heap))

NumPlus(nl, nr) ==
  IF IsNaN(nl) \/ IsNaN(nr) THEN NaN
  ELSE IF IsInfinite(nl) THEN (IF IsInfinite(nr) /\ nr # nl THEN NaN ELSE nl)
  ELSE IF IsInfinite(nr) THEN nr
  ELSE Quotient(nl.n * Denominator(nr) + nr.n * Denominator(nl),
                Denominator(nl) * Denominator(nr))

NumTimes(nl, nr) ==
  IF IsNaN(nl) \/ IsNaN(nr) THEN NaN
  ELSE IF IsInfinite(nl) \/ IsInfinite(nr)
  THEN (IF nl.n = 0 \/ nr.n = 0 THEN NaN
        ELSE IF Sign(nl.n) = Sign(nr.n) THEN Infinity ELSE NegInfinity)
  ELSE Quotient(nl.n * nr.n, Denominator(nl) * Denominator(nr))

NumDivide(nl, nr) ==
  IF IsNaN(nl) \/ IsNaN(nr) THEN NaN
  ELSE IF IsInfinite(nl)
  THEN (IF IsInfinite(nr) THEN NaN
        ELSE IF Sign(nl.n) * Sign(nr.n) < 0 THEN NegInfinity ELSE Infinity)
  ELSE IF IsInfinite(nr) THEN Num(0)
  ELSE IF nr.n = 0
  THEN (IF nl.n = 0 THEN NaN ELSE IF nl.n > 0 THEN Infinity ELSE NegInfinity)
  ELSE Quotient(nl.n * Denominator(nr), Denominator(nl) * nr.n)

PrimPlus(pl, pr, heap) ==
  IF pl.k = "string" \/ pr.k = "string"
  THEN Str(JSToString(pl, heap) \o JSToString(pr, heap))
  ELSE NumPlus(JSToNumber(pl), JSToNumber(pr))

\* left + right
JSPlus(l, r, heap) == PrimPlus(JSToPrimitive(l, heap), JSToPrimitive(r, heap), heap)

NumArith(op, nl, nr) ==
  CASE op = "-" -> NumPlus(nl, Negate(nr))
    [] op = "*" -> NumTimes(nl, nr)
    [] op = "/" -> NumDivide(nl, nr)

\* left - right, left * right, left / right
JSArith(op, l, r) == NumArith(op, JSToNumber(l), JSToNumber(r))


(***************************************************************************)
(* OMLInterpreter (visitors.ts).  The interpreter state st is the record   *)
(*   variables, functions, output, structTypes   the fields of the class;  *)
(*   heap    the JS objects built by object literals and `new Error`       *)
(*           (a value of kind object/error holds an index into it);        *)
(*   trace   history: the events of the statement being executed (a call,  *)
(*           a body entered and left, a return, a throw, a loop condition   *)
(*           evaluated, a loop body started);                              *)
(*   depth   history: the number of active visitFunctionCallNode frames.   *)
(* A visit yields R(st, val, ctl): ctl is "normal" (val is the value       *)
(* returned), "throw" (val is the JS value thrown) or "hang" (the visit     *)
(* does not finish within MaxIter / MaxDepth).                             *)
(***************************************************************************)
R(st, val, ctl) == [st |-> st, val |-> val, ctl |-> ctl]

EmptyMap == [x \in {} |-> Null]
MapSet(m, k, v) == (k :> v) @@ m
MapGet(m, k) == IF k \in DOMAIN m THEN m[k] ELSE Undefined

Event(e, fn, depth, val, table) ==
  [e |-> e, fn |-> fn, depth |-> depth, val |-> val, table |-> table]
Log(st, ev) == [st EXCEPT !.trace = Append(@, ev)]

\* throw new Error(msg)
ThrowError(st, msg) ==
  LET r == Len(st.heap) + 1
      st1 == [st EXCEPT !.heap = Append(@, ("message" :> Str(<<msg>>)))]
  IN R(Log(st1, Event("throw", "", st.depth, Err(r), EmptyMap)), Err(r), "throw")

Hang(st) == R(st, Undefined, "hang")

RECURSIVE visit(_, _)
RECURSIVE execStatements(_, _, _)
RECURSIVE bindArguments(_, _, _, _)
RECURSIVE evalProperties(_, _, _, _)
RECURSIVE whileLoop(_, _, _)

visitVariableDeclarationNode(node, st) ==
  IF node.a = <<>>
  THEN R([st EXCEPT !.variables = MapSet(@, node.name, Null)], Undefined, "normal")
  ELSE LET v == visit(node.a[1], st)
       IN IF v.ctl # "normal" THEN v
          ELSE R([v.st EXCEPT !.variables = MapSet(@, node.name, v.val)], Undefined, "normal")

visitPropertyAccessAssignment(node, value, st) ==
  LET o == visit(node.a[1], st)
  IN IF o.ctl # "normal" THEN o
     ELSE IF o.val.k \in {"object", "error"}
     THEN R([o.st EXCEPT !.heap[o.val.n] = MapSet(@, node.name, value)], Undefined, "normal")
     ELSE ThrowError(o.st, "Cannot assign property on non-object type.")

\* visitAssignmentNode that binds a copy of a struct value, not the reference
visitAssignmentNode_CopyStruct(node, st) ==
  LET v == visit(node.b[1], st)
      copied == [v.st EXCEPT !.heap = Append(@, v.st.heap[v.val.n])]
  IN IF v.ctl # "normal" THEN v
     ELSE IF node.a[1].t = "PropertyAccess"
     THEN visitPropertyAccessAssignment(node.a[1], v.val, v.st)
     ELSE IF v.val.k = "object"
     THEN R([copied EXCEPT !.variables = MapSet(@, node.a[1].name, Obj(Len(copied.heap)))],
            Undefined, "normal")
     ELSE R([v.st EXCEPT !.variables = MapSet(@, node.a[1].name, v.val)], Undefined, "normal")

visitAssignmentNode(node, st) ==
  LET v == visit(node.b[1], st)
  IN IF v.ctl # "normal" THEN v
     ELSE IF node.a[1].t = "PropertyAccess"
     THEN visitPropertyAccessAssignment(node.a[1], v.val, v.st)
     ELSE R([v.st EXCEPT !.variables = MapSet(@, node.a[1].name, v.val)], Undefined, "normal")

\* switch (node.operator) on the two evaluated operands
binaryOperator(op, left, right, h) ==
  CASE op = "." -> Str(JSToString(left, h) \o JSToString(right, h))
    [] op = "+" -> JSPlus(left, right, h)
    [] op \in {"-", "*", "/"} -> JSArith(op, left, right)
    [] op = "&&" -> IF Truthy(left) THEN right ELSE left
    [] op = "||" -> IF Truthy(left) THEN left ELSE right
    [] op = "==" -> Bool(JSLooseEq(left, right, h))
    [] op = "!=" -> Bool(~JSLooseEq(left, right, h))
    [] op = ">" -> Bool(JSLess(right, left, h))
    [] op = "<" -> Bool(JSLess(left, right, h))
    [] op = ">=" -> Bool(JSLessEq(right, left, h))
    [] op = "<=" -> Bool(JSLessEq(left, right, h))

BinaryOperators == {".", "+", "-", "*", "/", "&&", "||", "==", "!=", ">", "<", ">=", "<="}

binaryApply(op, left, r) ==
  IF r.ctl # "normal" THEN r
  ELSE IF op \in BinaryOperators
  THEN R(r.st, binaryOperator(op, left, r.val, r.st.heap), "normal")
  ELSE ThrowError(r.st, "Unsupported operator")

binaryRight(node, l) ==
  IF l.ctl # "normal" THEN l
  ELSE binaryApply(node.name, l.val, visit(node.b[1], l.st))

\* const left = node.left.accept(this); const right = node.right.accept(this)
visitBinaryExpressionNode(node, st) == binaryRight(node, visit(node.a[1], st))

visitFunctionDeclarationNode(node, st) ==
  R([st EXCEPT !.functions = MapSet(@, node.name, node)], Undefined, "normal")

\* for (let i = 0; i < func.parameters.length; i++): evaluate argument i in
\* this.variables, then set parameter i in this.variables
bindArguments(func, node, i, st) ==
  IF i > Len(func.names) THEN R(st, Undefined, "normal")
  ELSE IF i > Len(node.a)
  THEN ThrowError(st, "TypeError: Cannot read properties of undefined (reading 'accept')")
  ELSE LET v == visit(node.a[i], st)
       IN IF v.ctl # "normal" THEN v
          ELSE bindArguments(func, node, i + 1,
                 [v.st EXCEPT !.variables = MapSet(@, func.names[i], v.val)])

\* visitFunctionCallNode without `this.variables = oldVariables`
visitFunctionCallNode_NoRestore(node, st) ==
  IF node.name \notin DOMAIN st.functions THEN ThrowError(st, "Function is not defined")
  ELSE IF st.depth >= MaxDepth THEN Hang(st)
  ELSE
    LET func == st.functions[node.name]
        st0 == Log(st, Event("call", node.name, st.depth + 1, Undefined, st.variables))
        bound == bindArguments(func, node, 1, st0)
        st1 == Log([bound.st EXCEPT !.depth = st.depth + 1],
                   Event("enter", node.name, st.depth + 1, Undefined, bound.st.variables))
        body == execStatements(func.a, 1, st1)
        result == IF body.ctl = "throw" THEN body.val ELSE Null
        st2 == [body.st EXCEPT !.depth = st.depth]
    IN IF bound.ctl # "normal" THEN bound
       ELSE IF body.ctl = "hang" THEN body
       ELSE R(Log(st2, Event("exit", node.name, st.depth + 1, result, st2.variables)), result, "normal")

visitFunctionCallNode(node, st) ==
  IF node.name \notin DOMAIN st.functions THEN ThrowError(st, "Function is not defined")
  ELSE IF st.depth >= MaxDepth THEN Hang(st)
  ELSE
    LET func == st.functions[node.name]
        oldVariables == st.variables
        st0 == Log(st, Event("call", node.name, st.depth + 1, Undefined, st.variables))
        bound == bindArguments(func, node, 1, st0)
        st1 == Log([bound.st EXCEPT !.depth = st.depth + 1],
                   Event("enter", node.name, st.depth + 1, Undefined, bound.st.variables))
        body == execStatements(func.a, 1, st1)
        result == IF body.ctl = "throw" THEN body.val ELSE Null
        st2 == [body.st EXCEPT !.variables = oldVariables, !.depth = st.depth]
    IN IF bound.ctl # "normal" THEN bound
       ELSE IF body.ctl = "hang" THEN body
       ELSE R(Log(st2, Event("exit", node.name, st.depth + 1, result, st2.variables)),
              result, "normal")

visitBranchingNode(node, st) ==
  LET c == visit(node.a[1], st)
  IN IF c.ctl # "normal" THEN c
     ELSE IF Truthy(c.val) THEN execStatements(node.b, 1, c.st)
     ELSE execStatements(node.c, 1, c.st)

\* the outcome c of evaluating a loop's condition, noted in the trace
Evaluated(c) ==
  IF c.ctl # "normal" THEN c
  ELSE R(Log(c.st, Event("condition", "", c.st.depth, c.val, EmptyMap)), c.val, "normal")

\* a mutation: do { body } while (condition)
whileLoop_BodyFirst(node, st, iter) ==
  LET body == execStatements(node.b, 1, Log(st, Event("iteration", "", st.depth, Undefined, EmptyMap)))
      c == Evaluated(visit(node.a[1], body.st))
  IN IF body.ctl # "normal" THEN body
     ELSE IF c.ctl # "normal" THEN c
     ELSE IF ~Truthy(c.val) THEN R(c.st, Undefined, "normal")
     ELSE IF iter >= MaxIter THEN Hang(c.st)
     ELSE whileLoop(node, c.st, iter + 1)

\* while (node.condition.accept(this)) { for (const stmt of node.body) ... }
whileLoop(node, st, iter) ==
  LET c == Evaluated(visit(node.a[1], st))
      body == execStatements(node.b, 1, Log(c.st, Event("iteration", "", c.st.depth, Undefined, EmptyMap)))
  IN IF c.ctl # "normal" THEN c
     ELSE IF ~Truthy(c.val) THEN R(c.st, Undefined, "normal")
     ELSE IF iter >= MaxIter THEN Hang(c.st)
     ELSE IF body.ctl # "normal" THEN body
     ELSE whileLoop(node, body.st, iter + 1)

visitLoopNode(node, st) == whileLoop(node, st, 0)

visitLiteralNode(node, st) == R(st, node.value, "normal")

visitIdentifierNode(node, st) == R(st, MapGet(st.variables, node.name), "normal")

\* for (const [key, valueNode] of Object.entries(node.properties)) obj[key] = ...
evalProperties(node, i, obj, st) ==
  IF i > Len(node.names) THEN R(st, obj, "normal")
  ELSE LET v == visit(node.a[i], st)
       IN IF v.ctl # "normal" THEN v
          ELSE evalProperties(node, i + 1, MapSet(obj, node.names[i], v.val), v.st)

visitObjectLiteralNode(node, st) ==
  LET props == evalProperties(node, 1, EmptyMap, st)
      r == Len(props.st.heap) + 1
  IN IF props.ctl # "normal" THEN props
     ELSE R([props.st EXCEPT !.heap = Append(@, props.val)], Obj(r), "normal")

visitOutputNode(node, st) ==
  LET v == visit(node.a[1], st)
  IN IF v.ctl # "normal" THEN v
     ELSE R([v.st EXCEPT !.output = Append(@, v.val)], Undefined, "normal")

visitUnaryExpressionNode(node, st) ==
  LET v == visit(node.a[1], st)
      n == JSToNumber(JSToPrimitive(v.val, v.st.heap))
  IN IF v.ctl # "normal" THEN v
     ELSE IF node.name = "-" THEN R(v.st, Negate(n), "normal")
     ELSE IF node.name = "!" THEN R(v.st, Bool(~Truthy(v.val)), "normal")
     ELSE ThrowError(v.st, "Unsupported unary operator")

\* visitReturnNode that hands the value back without `throw`
visitReturnNode_NoThrow(node, st) ==
  LET v == visit(node.a[1], st)
  IN IF v.ctl # "normal" THEN v
     ELSE R(Log(v.st, Event("return", "", v.st.depth, v.val, EmptyMap)), v.val, "normal")

\* throw returnValue
visitReturnNode(node, st) ==
  LET v == visit(node.a[1], st)
  IN IF v.ctl # "normal" THEN v
     ELSE R(Log(v.st, Event("return", "", v.st.depth, v.val, EmptyMap)), v.val, "throw")

\* !(typeof index !== 'number' || index < 0 || index >= object.length)
IndexInBounds(index, s) ==
  /\ index.k = "number"
  /\ ~NumLess(index, Num(0))
  /\ ~(NumLess(Num(Len(s)), index) \/ NumEq(Num(Len(s)), index))

visitIndexAccessNode(node, st) ==
  LET o == visit(node.a[1], st)
      i == visit(node.b[1], o.st)
  IN IF o.ctl # "normal" THEN o
     ELSE IF i.ctl # "normal" THEN i
     ELSE IF o.val.k = "string"
     THEN IF ~IndexInBounds(i.val, o.val.s) THEN ThrowError(i.st, "Index out of bounds")
          ELSE IF ~IsInteger(i.val) THEN R(i.st, Undefined, "normal")
          ELSE R(i.st, Str(<<o.val.s[i.val.n + 1]>>), "normal")
     ELSE ThrowError(i.st, "Unsupported index access")

visitIndexAssignmentNode(node, st) ==
  LET o == visit(node.a[1], st)
      i == visit(node.b[1], o.st)
      v == visit(node.c[1], i.st)
  IN IF o.ctl # "normal" THEN o
     ELSE IF i.ctl # "normal" THEN i
     ELSE IF v.ctl # "normal" THEN v
     ELSE IF o.val.k = "string"
     THEN IF ~IndexInBounds(i.val, o.val.s) THEN ThrowError(v.st, "Index out of bounds")
          ELSE IF v.val.k # "string" \/ Len(v.val.s) # 1
          THEN ThrowError(v.st, "Value for string assignment must be a single character")
          ELSE LET characters == IF ~IsInteger(i.val) THEN o.val.s
                                 ELSE [o.val.s EXCEPT ![i.val.n + 1] = v.val.s[1]]
               IN R([v.st EXCEPT !.variables = MapSet(@, node.a[1].name, Str(characters))],
                    Undefined, "normal")
     ELSE ThrowError(v.st, "Unsupported index assignment")

\* ' '.repeat(n)
RECURSIVE Spaces(_)
Spaces(n) == IF n < 1 THEN <<>> ELSE <<" ">> \o Spaces(n - 1)

\* const value = node.value.accept(this): a TypeConstructionNode has the
\* fields type and values and no field value, node.value is undefined
visitTypeConstructionNode(node, st) ==
  IF node.value = Undefined
  THEN ThrowError(st, "TypeError: Cannot read properties of undefined (reading 'accept')")
  ELSE LET v == visit(node.value, st)
       IN IF v.ctl # "normal" THEN v
          ELSE IF node.ty = <<"string">> /\ v.val.k = "number"
          THEN IF NumLess(v.val, Num(1))
               THEN ThrowError(v.st, "String length must be greater than 0")
               ELSE R(v.st, Str(Spaces(v.val.n \div Denominator(v.val))), "normal")
          ELSE IF node.ty = <<"string">> /\ v.val.k = "string"
          THEN R(v.st, Str(JSToString(v.val, v.st.heap)), "normal")
          ELSE ThrowError(v.st, "Unsupported type construction: " \o node.ty[1])

visitStructTypeNode(node, st) ==
  IF node.name \in DOMAIN st.structTypes THEN ThrowError(st, "Struct type is already declared.")
  ELSE R([st EXCEPT !.structTypes = MapSet(@, node.name, [names |-> node.names, types |-> node.types])],
         Undefined, "normal")

visitPropertyAccessNode(node, st) ==
  LET o == visit(node.a[1], st)
  IN IF o.ctl # "normal" THEN o
     ELSE IF o.val.k = "string" /\ node.name = "length"
     THEN IF node.flag THEN ThrowError(o.st, "Cannot assign to read-only property 'length' of type 'string'.")
          ELSE R(o.st, Num(Len(o.val.s)), "normal")
     ELSE IF o.val.k \in {"object", "error"}
     THEN IF node.name \notin DOMAIN o.st.heap[o.val.n]
          THEN ThrowError(o.st, "Property does not exist on object.")
          ELSE R(o.st, o.st.heap[o.val.n][node.name], "normal")
     ELSE ThrowError(o.st, "Unsupported property access")

\* node.accept(this)
visit(node, st) ==
  CASE node.t = "VariableDeclaration" -> visitVariableDeclarationNode(node, st)
    [] node.t = "Assignment" -> visitAssignmentNode(node, st)
    [] node.t = "BinaryExpression" -> visitBinaryExpressionNode(node, st)
    [] node.t = "FunctionDeclaration" -> visitFunctionDeclarationNode(node, st)
    [] node.t = "FunctionCall" -> visitFunctionCallNode(node, st)
    [] node.t = "Branching" -> visitBranchingNode(node, st)
    [] node.t = "Loop" -> visitLoopNode(node, st)
    [] node.t = "Literal" -> visitLiteralNode(node, st)
    [] node.t = "Identifier" -> visitIdentifierNode(node, st)
    [] node.t = "ObjectLiteral" -> visitObjectLiteralNode(node, st)
    [] node.t = "Output" -> visitOutputNode(node, st)
    [] node.t = "UnaryExpression" -> visitUnaryExpressionNode(node, st)
    [] node.t = "Return" -> visitReturnNode(node, st)
    [] node.t = "IndexAccess" -> visitIndexAccessNode(node, st)
    [] node.t = "IndexAssignment" -> visitIndexAssignmentNode(node, st)
    [] node.t = "StructType" -> visitStructTypeNode(node, st)
    [] node.t = "PropertyAccess" -> visitPropertyAccessNode(node, st)
    [] node.t = "TypeConstruction" -> visitTypeConstructionNode(node, st)

\* for (const stmt of statements) { stmt.accept(this); }
execStatements(statements, i, st) ==
  IF i > Len(statements) THEN R(st, Undefined, "normal")
  ELSE LET r == visit(statements[i], Log(st, Event("stmt", statements[i].t, st.depth, Undefined, EmptyMap)))
       IN IF r.ctl # "normal" THEN r
          ELSE execStatements(statements, i + 1, r.st)


(***************************************************************************)
(* SemanticAnalyzer (semantic.ts).  The analyzer state az is the record    *)
(*   scopes   the chain of SymbolTables from the global scope (first) to   *)
(*            currentScope (last), each a map name -> type;                *)
(*   functions, currentFunctionReturnType, structTypes   the fields of the *)
(*            class (structTypes in insertion order).                      *)
(* A visit yields A(az, ty, err): ty the type returned, err the message of *)
(* the Error thrown ("" when none was thrown).                             *)
(***************************************************************************)
A(az, ty, err) == [az |-> az, ty |-> ty, err |-> err]

TNumber == <<"number">>
TString == <<"string">>
TBool == <<"bool">>
TVoid == <<"void">>
TUndefined == <<"undefined">>   \* a visit method that returns nothing
TNull == <<"null">>             \* currentFunctionReturnType = null
TObject(structName) == <<"object", structName>>

SA_Throw(az, msg) == A(az, TUndefined, msg)

\* `${type}` in the message of an Error: the text of a type
RECURSIVE TypeText(_)
TypeText(type) ==
  CASE type[1] = "object" -> "object<" \o type[2] \o ">"
    [] type[1] = "array" -> "array<" \o TypeText(Tail(type)) \o ">"
    [] OTHER -> type[1]

\* `expected '${expected}', got '${got}'`
ExpectedGot(expected, got) ==
  "expected '" \o TypeText(expected) \o "', got '" \o TypeText(got) \o "'"

RECURSIVE SA_visit(_, _)
RECURSIVE SA_visitStatements(_, _, _)
RECURSIVE SA_checkArguments(_, _, _, _)
RECURSIVE SA_checkProperties(_, _, _, _, _)
RECURSIVE hasReturnStatement(_)
RECURSIVE SA_visitPropertyAccessNode(_, _)

enterScope(az) == [az EXCEPT !.scopes = Append(@, EmptyMap)]

\* the caller has checked that an enclosing scope exists
exitScope(az) == [az EXCEPT !.scopes = SubSeq(@, 1, Len(@) - 1)]

declareVariable(az, name, type) ==
  [az EXCEPT !.scopes[Len(az.scopes)] = MapSet(@, name, type)]

\* a mutation: the name is looked up in every enclosing scope
isDeclaredInCurrentScope_AnyScope(az, name) ==
  \E i \in 1..Len(az.scopes) : name \in DOMAIN az.scopes[i]

isDeclaredInCurrentScope(az, name) == name \in DOMAIN az.scopes[Len(az.scopes)]

\* a mutation: the enclosing scopes are not searched
lookupVariable_CurrentScopeOnly(az, name) ==
  IF name \in DOMAIN az.scopes[Len(az.scopes)] THEN az.scopes[Len(az.scopes)][name] ELSE TNull

\* SymbolTable.lookupVariable: the innermost scope that has the name; TNull if none
lookupVariable(az, name) ==
  LET has == {i \in 1..Len(az.scopes) : name \in DOMAIN az.scopes[i]}
  IN IF has = {} THEN TNull
     ELSE az.scopes[CHOOSE i \in has : \A j \in has : j <= i][name]

SA_visitVariableDeclarationNode(node, az) ==
  IF isDeclaredInCurrentScope(az, node.name) THEN SA_Throw(az, "Variable '" \o node.name \o "' is already declared.")
  ELSE LET az1 == declareVariable(az, node.name, node.ty)
           v == SA_visit(node.a[1], az1)
       IN IF node.a = <<>> THEN A(az1, TUndefined, "")
          ELSE IF v.err # "" THEN v
          ELSE IF v.ty # node.ty THEN SA_Throw(v.az, "Type mismatch: " \o ExpectedGot(node.ty, v.ty) \o " in variable '" \o node.name \o "'.")
          ELSE A(v.az, TUndefined, "")

SA_visitAssignmentNode(node, az) ==
  LET target == node.a[1]
  IN IF target.t = "Identifier"
     THEN LET expectedType == lookupVariable(az, target.name)
              v == SA_visit(node.b[1], az)
          IN IF expectedType = TNull THEN SA_Throw(az, "Undeclared variable '" \o target.name \o "'.")
             ELSE IF v.err # "" THEN v
             ELSE IF v.ty # expectedType THEN SA_Throw(v.az, "Type mismatch: " \o ExpectedGot(expectedType, v.ty) \o " in assignment to '" \o target.name \o "'.")
             ELSE A(v.az, TUndefined, "")
     ELSE IF target.t = "PropertyAccess"
     THEN LET p == SA_visit(target, az)
              v == SA_visit(node.b[1], p.az)
          IN IF p.err # "" THEN p
             ELSE IF v.err # "" THEN v
             ELSE IF p.ty # v.ty THEN SA_Throw(v.az, "Type mismatch: " \o ExpectedGot(p.ty, v.ty) \o " in assignment to property '" \o target.name \o "'.")
             ELSE A(v.az, TUndefined, "")
     ELSE SA_Throw(az, "Unsupported assignment target.")

hasReturnStatement(statements) ==
  \E i \in 1..Len(statements) :
     \/ statements[i].t = "Return"
     \/ /\ statements[i].t = "Branching"
        /\ (hasReturnStatement(statements[i].b) \/ hasReturnStatement(statements[i].c))
     \/ /\ statements[i].t = "Loop"
        /\ hasReturnStatement(statements[i].b)

RECURSIVE SA_declareParameters(_, _, _)
\* node.parameters.forEach((param) => this.declareVariable(param.name, param.type))
SA_declareParameters(node, i, az) ==
  IF i > Len(node.names) THEN A(az, TUndefined, "")
  ELSE IF isDeclaredInCurrentScope(az, node.names[i])
  THEN SA_Throw(az, "Variable \"" \o node.names[i] \o "\" is already declared in this scope.")
  ELSE SA_declareParameters(node, i + 1, declareVariable(az, node.names[i], node.types[i]))

SA_visitFunctionDeclarationNode(node, az) ==
  IF node.name \in DOMAIN az.functions THEN SA_Throw(az, "Function '" \o node.name \o "' is already declared.")
  ELSE
    LET az1 == enterScope([az EXCEPT !.functions = MapSet(@, node.name, node),
                                     !.currentFunctionReturnType = node.ty])
        params == SA_declareParameters(node, 1, az1)
        body == SA_visitStatements(node.a, 1, params.az)
    IN IF params.err # "" THEN params
       ELSE IF body.err # "" THEN body
       ELSE IF body.az.currentFunctionReturnType # TVoid /\ ~hasReturnStatement(node.a)
       THEN SA_Throw(body.az, "Missing return statement in function '" \o node.name \o "'.")
       ELSE IF Len(body.az.scopes) <= 1 THEN SA_Throw(body.az, "No enclosing scope to exit to.")
       ELSE A([exitScope(body.az) EXCEPT !.currentFunctionReturnType = TNull], TUndefined, "")

\* node.args.forEach((arg, i) => ...)
SA_checkArguments(func, node, i, az) ==
  IF i > Len(node.a) THEN A(az, func.ty, "")
  ELSE LET v == SA_visit(node.a[i], az)
       IN IF v.err # "" THEN v
          ELSE IF v.ty # func.types[i] THEN SA_Throw(v.az, "Type mismatch in function call to '" \o node.name \o "': " \o ExpectedGot(func.types[i], v.ty) \o ".")
          ELSE SA_checkArguments(func, node, i + 1, v.az)

SA_visitFunctionCallNode(node, az) ==
  IF node.name \notin DOMAIN az.functions THEN SA_Throw(az, "Function '" \o node.name \o "' is not declared.")
  ELSE LET func == az.functions[node.name]
       IN IF Len(node.a) # Len(func.names) THEN SA_Throw(az, "Function expects a different number of arguments")
          ELSE SA_checkArguments(func, node, 1, az)

\* a mutation: the operands of + - * / are not required to be numbers
SA_visitBinaryExpressionNode_AnyArithmetic(node, az) ==
  LET l == SA_visit(node.a[1], az)
      r == SA_visit(node.b[1], l.az)
      op == node.name
      concat == {TString, TNumber, TBool}
  IN IF l.err # "" THEN l
     ELSE IF r.err # "" THEN r
     ELSE IF op = "."
     THEN IF l.ty \in concat /\ r.ty \in concat THEN A(r.az, TString, "")
          ELSE SA_Throw(r.az, "Invalid types for concatenation: '" \o TypeText(l.ty) \o "' and '" \o TypeText(r.ty) \o "'.")
     ELSE IF l.ty # r.ty THEN SA_Throw(r.az, "Type mismatch in binary expression: left is '" \o TypeText(l.ty) \o "', right is '" \o TypeText(r.ty) \o "'.")
     ELSE IF op \in {"+", "-", "*", "/"}
     THEN A(r.az, TNumber, "")
     ELSE IF op \in {"==", "!=", "<", ">", "<=", ">="} THEN A(r.az, TBool, "")
     ELSE IF op \in {"&&", "||"}
     THEN IF l.ty # TBool THEN SA_Throw(r.az, "Operator '" \o op \o "' requires boolean operands.")
          ELSE A(r.az, TBool, "")
     ELSE SA_Throw(r.az, "Unsupported operator '" \o op \o "'.")

SA_visitBinaryExpressionNode(node, az) ==
  LET l == SA_visit(node.a[1], az)
      r == SA_visit(node.b[1], l.az)
      op == node.name
      concat == {TString, TNumber, TBool}
  IN IF l.err # "" THEN l
     ELSE IF r.err # "" THEN r
     ELSE IF op = "."
     THEN IF l.ty \in concat /\ r.ty \in concat THEN A(r.az, TString, "")
          ELSE SA_Throw(r.az, "Invalid types for concatenation: '" \o TypeText(l.ty) \o "' and '" \o TypeText(r.ty) \o "'.")
     ELSE IF l.ty # r.ty THEN SA_Throw(r.az, "Type mismatch in binary expression: left is '" \o TypeText(l.ty) \o "', right is '" \o TypeText(r.ty) \o "'.")
     ELSE IF op \in {"+", "-", "*", "/"}
     THEN IF l.ty # TNumber THEN SA_Throw(r.az, "Operator '" \o op \o "' requires numeric operands.")
          ELSE A(r.az, TNumber, "")
     ELSE IF op \in {"==", "!=", "<", ">", "<=", ">="} THEN A(r.az, TBool, "")
     ELSE IF op \in {"&&", "||"}
     THEN IF l.ty # TBool THEN SA_Throw(r.az, "Operator '" \o op \o "' requires boolean operands.")
          ELSE A(r.az, TBool, "")
     ELSE SA_Throw(r.az, "Unsupported operator '" \o op \o "'.")

SA_visitLiteralNode(node, az) ==
  CASE node.value.k = "boolean" -> A(az, TBool, "")
    [] node.value.k = "number" -> A(az, TNumber, "")
    [] node.value.k = "string" -> A(az, TString, "")
    [] OTHER -> A(az, <<node.value.k>>, "")

SA_visitIdentifierNode(node, az) ==
  LET variableType == lookupVariable(az, node.name)
  IN IF variableType = TNull THEN SA_Throw(az, "Undeclared variable '" \o node.name \o "'.")
     ELSE A(az, variableType, "")

SA_visitUnaryExpressionNode(node, az) ==
  LET v == SA_visit(node.a[1], az)
  IN IF v.err # "" THEN v
     ELSE IF node.name = "-" /\ v.ty = TNumber THEN A(v.az, TNumber, "")
     ELSE IF node.name = "!" /\ v.ty = TBool THEN A(v.az, TBool, "")
     ELSE SA_Throw(v.az, "Unsupported unary operator '" \o node.name \o "' for type '" \o TypeText(v.ty) \o "'.")

SA_visitReturnNode(node, az) ==
  LET v == SA_visit(node.a[1], az)
  IN IF v.err # "" THEN v
     ELSE IF v.ty # v.az.currentFunctionReturnType THEN SA_Throw(v.az, "Return type mismatch: " \o ExpectedGot(v.az.currentFunctionReturnType, v.ty) \o ".")
     ELSE A(v.az, TUndefined, "")

\* ObjectLiteralNode.isMatchingStruct
isMatchingStruct(node, struct) ==
  /\ Cardinality({node.names[i] : i \in 1..Len(node.names)}) = Len(struct.names)
  /\ \A i \in 1..Len(node.names) : \E j \in 1..Len(struct.names) : struct.names[j] = node.names[i]

\* ObjectLiteralNode.getType: the first registered struct that matches; 0 if none
getType(node, structTypes) ==
  LET m == {i \in 1..Len(structTypes) : isMatchingStruct(node, structTypes[i])}
  IN IF m = {} THEN 0 ELSE CHOOSE i \in m : \A j \in m : i <= j

StructFieldType(struct, key) ==
  IF \E j \in 1..Len(struct.names) : struct.names[j] = key
  THEN struct.types[CHOOSE j \in 1..Len(struct.names) : struct.names[j] = key]
  ELSE TUndefined

SA_checkProperties(node, struct, i, objType, az) ==
  IF i > Len(node.names) THEN A(az, objType, "")
  ELSE LET v == SA_visit(node.a[i], az)
       IN IF v.err # "" THEN v
          ELSE IF StructFieldType(struct, node.names[i]) # v.ty
          THEN SA_Throw(v.az, "Type mismatch for property '" \o node.names[i] \o "': " \o ExpectedGot(StructFieldType(struct, node.names[i]), v.ty) \o ".")
          ELSE SA_checkProperties(node, struct, i + 1, objType, v.az)

SA_visitObjectLiteralNode(node, az) ==
  LET k == getType(node, az.structTypes)
  IN IF k = 0 THEN SA_Throw(az, "Object literal does not match any declared struct type.")
     ELSE SA_checkProperties(node, az.structTypes[k], 1, TObject(az.structTypes[k].name), az)

SA_visitBranchingNode(node, az) ==
  LET c == SA_visit(node.a[1], az)
      t == SA_visitStatements(node.b, 1, enterScope(c.az))
      azT == exitScope(t.az)
      f == SA_visitStatements(node.c, 1, enterScope(azT))
  IN IF c.err # "" THEN c
     ELSE IF c.ty # TBool THEN SA_Throw(c.az, "Condition in branching must be of type 'bool', but got '" \o TypeText(c.ty) \o "'.")
     ELSE IF t.err # "" THEN t
     ELSE IF Len(node.c) = 0 THEN A(azT, TUndefined, "")
     ELSE IF f.err # "" THEN f
     ELSE A(exitScope(f.az), TUndefined, "")

SA_visitLoopNode(node, az) ==
  LET c == SA_visit(node.a[1], az)
      b == SA_visitStatements(node.b, 1, enterScope(c.az))
  IN IF c.err # "" THEN c
     ELSE IF c.ty # TBool THEN SA_Throw(c.az, "Condition in loop must be of type 'bool', but got '" \o TypeText(c.ty) \o "'.")
     ELSE IF b.err # "" THEN b
     ELSE A(exitScope(b.az), TUndefined, "")

SA_visitOutputNode(node, az) ==
  LET v == SA_visit(node.a[1], az)
  IN IF v.err # "" THEN v ELSE A(v.az, TUndefined, "")

IsArrayType(type) == Len(type) > 1 /\ type[1] = "array"
IsObjectType(type) == Len(type) > 1 /\ type[1] = "object"

SA_visitIndexAccessNode(node, az) ==
  LET o == SA_visit(node.a[1], az)
      i == SA_visit(node.b[1], o.az)
  IN IF o.err # "" THEN o
     ELSE IF i.err # "" THEN i
     ELSE IF o.ty = TString
     THEN IF i.ty # TNumber THEN SA_Throw(i.az, "Index for string must be of type 'number'")
          ELSE A(i.az, TUndefined, "")
     ELSE IF o.ty = TUndefined THEN SA_Throw(i.az, "TypeError: Cannot read properties of undefined (reading 'startsWith')")
     ELSE IF IsArrayType(o.ty)
     THEN IF i.ty # TNumber THEN SA_Throw(i.az, "Index for array must be of type 'number'")
          ELSE A(i.az, TUndefined, "")
     ELSE SA_Throw(i.az, "Unsupported index access on type '" \o TypeText(o.ty) \o "'.")

SA_visitIndexAssignmentNode(node, az) ==
  LET o == SA_visit(node.a[1], az)
      i == SA_visit(node.b[1], o.az)
      v == SA_visit(node.c[1], i.az)
  IN IF o.err # "" THEN o
     ELSE IF i.err # "" THEN i
     ELSE IF v.err # "" THEN v
     ELSE IF o.ty = TString
     THEN IF i.ty # TNumber THEN SA_Throw(v.az, "Index for string must be of type 'number'")
          ELSE IF v.ty # TString THEN SA_Throw(v.az, "Value for string assignment must be a string type")
          ELSE IF node.c[1].t = "Literal" /\ node.c[1].value.k = "string" /\ Len(node.c[1].value.s) # 1
          THEN SA_Throw(v.az, "Value for string assignment must be a single character")
          ELSE A(v.az, TUndefined, "")
     ELSE IF o.ty = TUndefined THEN SA_Throw(v.az, "TypeError: Cannot read properties of undefined (reading 'startsWith')")
     ELSE IF IsArrayType(o.ty)
     THEN IF i.ty # TNumber THEN SA_Throw(v.az, "Index for array must be of type 'number'")
          ELSE A(v.az, TUndefined, "")
     ELSE SA_Throw(v.az, "Unsupported index assignment on type '" \o TypeText(o.ty) \o "'.")

SA_visitStructTypeNode(node, az) ==
  IF \E i \in 1..Len(az.structTypes) : az.structTypes[i].name = node.name
  THEN SA_Throw(az, "Struct type '" \o node.name \o "' is already declared.")
  ELSE A([az EXCEPT !.structTypes = Append(@, [name |-> node.name, names |-> node.names, types |-> node.types])],
         TUndefined, "")

SA_visitPropertyAccessNode(node, az) ==
  LET o == SA_visit(node.a[1], az)
      declared == {i \in 1..Len(o.az.structTypes) : o.az.structTypes[i].name = o.ty[2]}
      structType == o.az.structTypes[CHOOSE i \in declared : TRUE]
      propertyType == StructFieldType(structType, node.name)
  IN IF o.err # "" THEN o
     ELSE IF o.ty = TString /\ node.name = "length"
     THEN IF node.flag THEN SA_Throw(o.az, "Cannot assign to read-only property 'length' of type 'string'.")
          ELSE A(o.az, TNumber, "")
     ELSE IF o.ty = TUndefined THEN SA_Throw(o.az, "TypeError: Cannot read properties of undefined (reading 'startsWith')")
     ELSE IF IsArrayType(o.ty) /\ node.name = "length"
     THEN IF node.flag THEN SA_Throw(o.az, "Cannot assign to read-only property 'length' of type 'array'.")
          ELSE A(o.az, TNumber, "")
     ELSE IF IsObjectType(o.ty)
     THEN IF declared = {} THEN SA_Throw(o.az, "Struct type '" \o o.ty[2] \o "' is not declared.")
          ELSE IF propertyType = TUndefined THEN SA_Throw(o.az, "Property '" \o node.name \o "' does not exist on type '" \o TypeText(o.ty) \o "'.")
          ELSE A(o.az, propertyType, "")
     ELSE IF node.a[1].t = "PropertyAccess" THEN SA_visitPropertyAccessNode(node.a[1], o.az)
     ELSE SA_Throw(o.az, "Unsupported property access on type '" \o TypeText(o.ty) \o "'.")

\* node.values.map(value => value.accept(this)): the types, in `ty`
RECURSIVE SA_visitValues(_, _, _, _)
SA_visitValues(values, i, types, az) ==
  IF i > Len(values) THEN A(az, types, "")
  ELSE LET v == SA_visit(values[i], az)
       IN IF v.err # "" THEN v
          ELSE SA_visitValues(values, i + 1, Append(types, v.ty), v.az)

SA_visitTypeConstructionNode(node, az) ==
  LET type == node.ty
      values == SA_visitValues(node.a, 1, <<>>, az)
      elementType == Tail(type)
      wrong == {i \in 1..Len(values.ty) : values.ty[i] # elementType}
      firstWrong == CHOOSE i \in wrong : \A j \in wrong : i <= j
  IN IF values.err # "" THEN values
     ELSE IF type[1] = "array"
     THEN IF Len(values.ty) = 1
          THEN IF values.ty[1] # TNumber
               THEN SA_Throw(values.az, "Array size must be of type 'number', but got '"
                                          \o TypeText(values.ty[1]) \o "'.")
               ELSE A(values.az, type, "")
          ELSE IF wrong # {}
          THEN SA_Throw(values.az, "Array elements must be of type '" \o TypeText(elementType)
                                     \o "', but got '" \o TypeText(values.ty[firstWrong]) \o "'.")
          ELSE A(values.az, type, "")
     ELSE IF type = TString
     THEN IF Len(values.ty) # 1
          THEN SA_Throw(values.az, "String constructor expects one argument.")
          ELSE IF values.ty[1] # TNumber /\ values.ty[1] # TString
          THEN SA_Throw(values.az, "String constructor expects a number or string argument, but got "
                                     \o TypeText(values.ty[1]) \o ".")
          ELSE A(values.az, TString, "")
     ELSE SA_Throw(values.az, "Unsupported type construction: " \o TypeText(type))

\* node.accept(this)
SA_visit(node, az) ==
  CASE node.t = "VariableDeclaration" -> SA_visitVariableDeclarationNode(node, az)
    [] node.t = "Assignment" -> SA_visitAssignmentNode(node, az)
    [] node.t = "BinaryExpression" -> SA_visitBinaryExpressionNode(node, az)
    [] node.t = "FunctionDeclaration" -> SA_visitFunctionDeclarationNode(node, az)
    [] node.t = "FunctionCall" -> SA_visitFunctionCallNode(node, az)
    [] node.t = "Branching" -> SA_visitBranchingNode(node, az)
    [] node.t = "Loop" -> SA_visitLoopNode(node, az)
    [] node.t = "Literal" -> SA_visitLiteralNode(node, az)
    [] node.t = "Identifier" -> SA_visitIdentifierNode(node, az)
    [] node.t = "ObjectLiteral" -> SA_visitObjectLiteralNode(node, az)
    [] node.t = "Output" -> SA_visitOutputNode(node, az)
    [] node.t = "UnaryExpression" -> SA_visitUnaryExpressionNode(node, az)
    [] node.t = "Return" -> SA_visitReturnNode(node, az)
    [] node.t = "IndexAccess" -> SA_visitIndexAccessNode(node, az)
    [] node.t = "IndexAssignment" -> SA_visitIndexAssignmentNode(node, az)
    [] node.t = "StructType" -> SA_visitStructTypeNode(node, az)
    [] node.t = "PropertyAccess" -> SA_visitPropertyAccessNode(node, az)
    [] node.t = "TypeConstruction" -> SA_visitTypeConstructionNode(node, az)

\* statements.forEach((stmt) => stmt.accept(this))
SA_visitStatements(statements, i, az) ==
  IF i > Len(statements) THEN A(az, TUndefined, "")
  ELSE LET r == SA_visit(statements[i], az)
       IN IF r.err # "" THEN r
          ELSE SA_visitStatements(statements, i + 1, r.az)


(***************************************************************************)
(* The statements a program is made of.  Every statement is one the parser *)
(* can build; the comment gives its source text.                           *)
(***************************************************************************)
Id(name) == IdentifierNode(name)
LitNum(n) == LiteralNode(Num(n))
LitStr(s) == LiteralNode(Str(s))
LitBool(b) == LiteralNode(Bool(b))
Bin(l, op, r) == BinaryExpressionNode(l, op, r)

DeclarationPool == {
  VariableDeclarationNode("a", TNumber, <<LitNum(1)>>),              \* +a~number = 1;
  VariableDeclarationNode("b", TNumber, <<Id("a")>>),                \* +b~number = a;
  VariableDeclarationNode("s", TString, <<LitStr(<<"a", "b">>)>>),   \* +s~string = "ab";
  VariableDeclarationNode("t", TString, <<Id("s")>>),                \* +t~string = s;
  VariableDeclarationNode("p", TObject("P"),                          \* +p~object<P> = (x: 1);
     <<ObjectLiteralNode(<<"x">>, <<LitNum(1)>>)>>),
  VariableDeclarationNode("q", TObject("P"), <<Id("p")>>)            \* +q~object<P> = p;
}

StructTypePool == {
  StructTypeNode("P", <<"x">>, <<TNumber>>)                           \* $P::{ x: number; }
}

AssignmentPool == {
  AssignmentNode(Id("b"), Bin(Id("b"), "+", LitNum(5))),              \* <-b = b + 5;
  AssignmentNode(Id("q"), Id("p")),                                   \* <-q = p;
  AssignmentNode(PropertyAccessNode(Id("q"), "x", TRUE), LitNum(2)),  \* <-q->x = 2;
  AssignmentNode(Id("a"), FunctionCallNode("f", <<Id("a")>>))         \* <-a = <>f::(a);
}

IndexAssignmentPool == {
  IndexAssignmentNode(Id("t"), LitNum(0), LitStr(<<"z">>)),           \* t->(0) = "z";
  IndexAssignmentNode(Id("s"), LitNum(2), LitStr(<<"z">>))            \* s->(2) = "z";
}

\* @f::<a~number> -> number |
\*   %[a < 3] | ?[a == 1] | @f <- a * 10; ~ <-a = a + 1; ~
\*   ^^ a;
\*   @f <- 0;
\* ~
FunReturnInLoop ==
  FunctionDeclarationNode("f", <<"a">>, <<TNumber>>, TNumber, <<
    LoopNode(Bin(Id("a"), "<", LitNum(3)), <<
      BranchingNode(Bin(Id("a"), "==", LitNum(1)),
                    <<ReturnNode(Bin(Id("a"), "*", LitNum(10)))>>, <<>>),
      AssignmentNode(Id("a"), Bin(Id("a"), "+", LitNum(1)))>>),
    OutputNode(Id("a")),
    ReturnNode(LitNum(0))>>)

\* @f::<n~number> -> number |
\*   ?[n < 1] | @f <- 0; ~
\*   +b~number = <>f::(n - 1);
\*   @f <- b + n;
\* ~
FunRecursive ==
  FunctionDeclarationNode("f", <<"n">>, <<TNumber>>, TNumber, <<
    BranchingNode(Bin(Id("n"), "<", LitNum(1)), <<ReturnNode(LitNum(0))>>, <<>>),
    VariableDeclarationNode("b", TNumber, <<FunctionCallNode("f", <<Bin(Id("n"), "-", LitNum(1))>>)>>),
    ReturnNode(Bin(Id("b"), "+", Id("n")))>>)

\* @g::none -> void | <-a = 7; s->(5) = "x"; ^^ a; ~
FunFault ==
  FunctionDeclarationNode("g", <<>>, <<>>, TVoid, <<
    AssignmentNode(Id("a"), LitNum(7)),
    IndexAssignmentNode(Id("s"), LitNum(5), LitStr(<<"x">>)),
    OutputNode(Id("a"))>>)

\* @g::none -> number | <-a = a + 6; +c~number = 8; @g <- a + c; ~
FunUsesGlobal ==
  FunctionDeclarationNode("g", <<>>, <<>>, TNumber, <<
    AssignmentNode(Id("a"), Bin(Id("a"), "+", LitNum(6))),
    VariableDeclarationNode("c", TNumber, <<LitNum(8)>>),
    ReturnNode(Bin(Id("a"), "+", Id("c")))>>)

\* @h::<o~object<P>> -> void | <-o->x = 3; ~
FunSetField ==
  FunctionDeclarationNode("h", <<"o">>, <<TObject("P")>>, TVoid, <<
    AssignmentNode(PropertyAccessNode(Id("o"), "x", TRUE), LitNum(3))>>)

FunctionDeclarationPool == {FunReturnInLoop, FunRecursive, FunFault, FunUsesGlobal, FunSetField}

FunctionCallPool == {
  FunctionCallNode("g", <<>>),                     \* <>g::();
  FunctionCallNode("h", <<Id("p")>>),              \* <>h::(p);
  FunctionCallNode("f", <<LitNum(2)>>)             \* <>f::(2);
}

BranchingPool == {
  \* ?[a == 1] | +a~number = 2; +c~number = 3; ~ : | <-a = 1; ~
  BranchingNode(Bin(Id("a"), "==", LitNum(1)),
    <<VariableDeclarationNode("a", TNumber, <<LitNum(2)>>),
      VariableDeclarationNode("c", TNumber, <<LitNum(3)>>)>>,
    <<AssignmentNode(Id("a"), LitNum(1))>>)
}

\* %[a < 3] | +d~number = a; <-a = a + 1; ~
LoopCounting ==
  LoopNode(Bin(Id("a"), "<", LitNum(3)),
    <<VariableDeclarationNode("d", TNumber, <<Id("a")>>),
      AssignmentNode(Id("a"), Bin(Id("a"), "+", LitNum(1)))>>)

\* %[a > 0] | <-a = a + 1; ~
LoopEndless ==
  LoopNode(Bin(Id("a"), ">", LitNum(0)),
    <<AssignmentNode(Id("a"), Bin(Id("a"), "+", LitNum(1)))>>)

LoopPool == {LoopCounting, LoopEndless}

OutputPool == {
  OutputNode(Id("a")),                                   \* ^^ a;
  OutputNode(FunctionCallNode("g", <<>>)),               \* ^^ <>g::();
  OutputNode(PropertyAccessNode(Id("p"), "x", FALSE))    \* ^^ p->x;
}

(***************************************************************************)
(* The run of a program (index.ts, OML.exec): every statement is analyzed  *)
(* by SemanticAnalyzer.visitProgramNode and then executed by               *)
(* OMLInterpreter.visitProgramNode.  The analysis is one pass in statement *)
(* order and the analysis of a statement reads nothing of the statements   *)
(* after it, so the program is built one top-level statement at a time:    *)
(* a step appends a statement that passes analysis after the statements    *)
(* before it, and executes it.  Every state reached is the state of the    *)
(* interpreter after a prefix of some program that passes analysis.        *)
(***************************************************************************)
\* parse() has not run
NotParsed == [run |-> FALSE]

\* no Tokenizer has been constructed
NotTokenizing == [status |-> "none"]

InterpInit ==
  [variables |-> EmptyMap, functions |-> EmptyMap, output |-> <<>>,
   structTypes |-> EmptyMap, heap |-> <<>>, trace |-> <<>>, depth |-> 0]

AnalyzerInit ==
  [scopes |-> <<EmptyMap>>, functions |-> EmptyMap,
   currentFunctionReturnType |-> TNull, structTypes |-> <<>>]

Init ==
  /\ interp = InterpInit
  /\ analyzer = AnalyzerInit
  /\ status = "running"
  /\ lastStmt = NoNode
  /\ nstmts = 0
  /\ tokens = <<>>
  /\ parsed = NotParsed
  /\ program = <<>>
  /\ outcomes = <<>>
  /\ tokenizer = NotTokenizing

\* visitProgramNode: one iteration of `for (const stmt of node.statements)`,
\* first of the analyzer and then of the interpreter
StepResult(checked, r) ==
  [enabled |-> status = "running" /\ nstmts < MaxStmts /\ checked.err = "",
   analyzer |-> checked.az,
   interp |-> [r.st EXCEPT !.depth = 0],
   status |-> CASE r.ctl = "normal" -> "running"
                [] r.ctl = "throw" -> "failed"
                [] r.ctl = "hang" -> "hung"]

Step(stmt) ==
  StepResult(SA_visit(stmt, analyzer),
             visit(stmt, Log([interp EXCEPT !.trace = <<>>],
                             Event("stmt", stmt.t, 0, Undefined, EmptyMap))))

\* a top-level VariableDeclarationNode
RunVariableDeclaration ==
  \E stmt \in DeclarationPool :
    \E n \in {Step(stmt)} :
       /\ n.enabled
       /\ analyzer' = n.analyzer
       /\ interp' = n.interp
       /\ status' = n.status
       /\ lastStmt' = stmt
       /\ nstmts' = nstmts + 1
       /\ UNCHANGED <<tokens, parsed, program, outcomes, tokenizer>>

\* a top-level StructTypeNode
RunStructType ==
  \E stmt \in StructTypePool :
    \E n \in {Step(stmt)} :
       /\ n.enabled
       /\ analyzer' = n.analyzer
       /\ interp' = n.interp
       /\ status' = n.status
       /\ lastStmt' = stmt
       /\ nstmts' = nstmts + 1
       /\ UNCHANGED <<tokens, parsed, program, outcomes, tokenizer>>

\* a top-level AssignmentNode
RunAssignment ==
  \E stmt \in AssignmentPool :
    \E n \in {Step(stmt)} :
       /\ n.enabled
       /\ analyzer' = n.analyzer
       /\ interp' = n.interp
       /\ status' = n.status
       /\ lastStmt' = stmt
       /\ nstmts' = nstmts + 1
       /\ UNCHANGED <<tokens, parsed, program, outcomes, tokenizer>>

\* a top-level IndexAssignmentNode
RunIndexAssignment ==
  \E stmt \in IndexAssignmentPool :
    \E n \in {Step(stmt)} :
       /\ n.enabled
       /\ analyzer' = n.analyzer
       /\ interp' = n.interp
       /\ status' = n.status
       /\ lastStmt' = stmt
       /\ nstmts' = nstmts + 1
       /\ UNCHANGED <<tokens, parsed, program, outcomes, tokenizer>>

\* a top-level FunctionDeclarationNode
RunFunctionDeclaration ==
  \E stmt \in FunctionDeclarationPool :
    \E n \in {Step(stmt)} :
       /\ n.enabled
       /\ analyzer' = n.analyzer
       /\ interp' = n.interp
       /\ status' = n.status
       /\ lastStmt' = stmt
       /\ nstmts' = nstmts + 1
       /\ UNCHANGED <<tokens, parsed, program, outcomes, tokenizer>>

\* a top-level FunctionCallNode
RunFunctionCall ==
  \E stmt \in FunctionCallPool :
    \E n \in {Step(stmt)} :
       /\ n.enabled
       /\ analyzer' = n.analyzer
       /\ interp' = n.interp
       /\ status' = n.status
       /\ lastStmt' = stmt
       /\ nstmts' = nstmts + 1
       /\ UNCHANGED <<tokens, parsed, program, outcomes, tokenizer>>

\* a top-level BranchingNode
RunBranching ==
  \E stmt \in BranchingPool :
    \E n \in {Step(stmt)} :
       /\ n.enabled
       /\ analyzer' = n.analyzer
       /\ interp' = n.interp
       /\ status' = n.status
       /\ lastStmt' = stmt
       /\ nstmts' = nstmts + 1
       /\ UNCHANGED <<tokens, parsed, program, outcomes, tokenizer>>

\* a top-level LoopNode
RunLoop ==
  \E stmt \in LoopPool :
    \E n \in {Step(stmt)} :
       /\ n.enabled
       /\ analyzer' = n.analyzer
       /\ interp' = n.interp
       /\ status' = n.status
       /\ lastStmt' = stmt
       /\ nstmts' = nstmts + 1
       /\ UNCHANGED <<tokens, parsed, program, outcomes, tokenizer>>

\* a top-level OutputNode
RunOutput ==
  \E stmt \in OutputPool :
    \E n \in {Step(stmt)} :
       /\ n.enabled
       /\ analyzer' = n.analyzer
       /\ interp' = n.interp
       /\ status' = n.status
       /\ lastStmt' = stmt
       /\ nstmts' = nstmts + 1
       /\ UNCHANGED <<tokens, parsed, program, outcomes, tokenizer>>

Next ==
  \/ RunVariableDeclaration
  \/ RunStructType
  \/ RunAssignment
  \/ RunIndexAssignment
  \/ RunFunctionDeclaration
  \/ RunFunctionCall
  \/ RunBranching
  \/ RunLoop
  \/ RunOutput

Spec == Init /\ [][Next]_vars


(***************************************************************************)
(* Properties of function calls, scopes and values (Spec).                 *)
(***************************************************************************)
Trace == interp.trace
EventsOf(e) == {i \in DOMAIN Trace : Trace[i].e = e}
Range(seq) == {seq[i] : i \in DOMAIN seq}

\* the "call" event that opened the call closed by the "exit" event j
MatchingCall(j) ==
  CHOOSE i \in 1..(j - 1) :
    /\ Trace[i].e = "call" /\ Trace[i].depth = Trace[j].depth
    /\ \A k \in (i + 1)..(j - 1) : ~(Trace[k].e = "call" /\ Trace[k].depth = Trace[j].depth)

\* the statement that the last step ran, when the run went on after it
Ran(stmt) == lastStmt' = stmt /\ nstmts' = nstmts + 1 /\ status' = "running"

AliasDeclaration == VariableDeclarationNode("q", TObject("P"), <<Id("p")>>)
AliasAssignment == AssignmentNode(Id("q"), Id("p"))
FieldAssignment == AssignmentNode(PropertyAccessNode(Id("q"), "x", TRUE), LitNum(2))
CallSetField == FunctionCallNode("h", <<Id("p")>>)
CopyDeclaration == VariableDeclarationNode("t", TString, <<Id("s")>>)
CharAssignment == IndexAssignmentNode(Id("t"), LitNum(0), LitStr(<<"z">>))
NumberAssignment == AssignmentNode(Id("b"), Bin(Id("b"), "+", LitNum(5)))
CallFault == FunctionCallNode("g", <<>>)
CallReturnInLoop == AssignmentNode(Id("a"), FunctionCallNode("f", <<Id("a")>>))

\* C1: a runtime fault raised while a function body executes aborts the
\* whole run: the run has failed, and nothing is executed after the fault (the
\* fault is not handed back as the call's value, no later statement runs).
C1_FaultAbortsRun ==
  \A i \in EventsOf("throw") : status = "failed" /\ i = Len(Trace)

\* a fault inside the body of g came back as the value of the call, and the
\* run goes on
C1_FaultReturned ==
  /\ status = "running"
  /\ lastStmt = CallFault
  /\ \E i \in EventsOf("throw") : \E j \in EventsOf("exit") :
       i < j /\ Trace[i].depth = 1 /\ Trace[j].depth = 1 /\ Trace[j].val = Trace[i].val

\* C2: a variable declared inside a branch arm or a loop body lives in a
\* nested scope that is discarded on leaving the block: the block leaves the
\* set of bound names as it was before the block.
C2_BlockScopeDiscarded ==
  [][(lastStmt'.t \in {"Branching", "Loop"} /\ nstmts' = nstmts + 1 /\ status' = "running")
       => DOMAIN interp'.variables = DOMAIN interp.variables]_vars

\* the branch arm's declarations +a~number = 2; +c~number = 3; are still
\* bound after the branch, and the outer a is overwritten
C2_BlockNamesLeak ==
  /\ status = "running"
  /\ lastStmt.t = "Branching"
  /\ "c" \in DOMAIN interp.variables
  /\ interp.variables["a"] = Num(2)

\* C3: while a function body runs the table of bindings is fresh: it holds
\* the function's parameters when the body starts, and no name of the caller.
C3_FreshTable ==
  \A i \in EventsOf("enter") :
    DOMAIN Trace[i].table = Range(interp.functions[Trace[i].fn].names)

\* the body of the parameterless g starts with the caller's a bound
C3_CallerNamesVisible ==
  \E i \in EventsOf("enter") :
    Trace[i].fn = "g" /\ "a" \in DOMAIN Trace[i].table

\* C4: when a function call returns, the caller's table of bindings is
\* exactly the table at the start of the call.
C4_CallerTableRestored ==
  \A j \in EventsOf("exit") : Trace[j].table = Trace[MatchingCall(j)].table

\* a call returned whose body started with a table other than the caller's
\* (a parameter was bound over it)
C4_CallChangedTable ==
  \E j \in EventsOf("exit") : \E i \in EventsOf("enter") :
    /\ MatchingCall(j) < i /\ i < j /\ Trace[i].depth = Trace[j].depth
    /\ Trace[i].table # Trace[MatchingCall(j)].table
    /\ status = "running"

\* C5: a return statement, at any nesting depth inside the body, ends the
\* call at once: the next thing that happens is the call's exit, with exactly
\* the returned value, in the frame of the return.
C5_ReturnEndsCall ==
  \A i \in EventsOf("return") :
    /\ i < Len(Trace)
    /\ Trace[i + 1].e = "exit"
    /\ Trace[i + 1].depth = Trace[i].depth
    /\ Trace[i + 1].val = Trace[i].val

\* <-a = <>f::(a); with a = 1: f returns 10 from the branch inside its loop,
\* and the caller assigns it
C5_ReturnInsideLoop ==
  /\ status = "running"
  /\ lastStmt = CallReturnInLoop
  /\ interp.variables["a"] = Num(10)
  /\ \E i \in EventsOf("return") : \E k \in EventsOf("iteration") :
       k < i /\ Trace[k].depth = Trace[i].depth /\ Trace[i].val = Num(10)

\* C6: a struct value is a reference: binding it to a second name gives both
\* names the same object, a field written through one name (or through a
\* parameter inside a call) is read through the other; a string or a number
\* is a copy: writing one variable leaves every other variable as it was.
C6_ValueReferenceAsymmetry ==
  [][/\ (Ran(AliasDeclaration) \/ Ran(AliasAssignment))
          => /\ interp'.variables["q"].k = "object"
             /\ interp'.variables["q"] = interp'.variables["p"]
     /\ (Ran(FieldAssignment) /\ interp.variables["q"] = interp.variables["p"])
          => interp'.heap[interp'.variables["p"].n]["x"] = Num(2)
     /\ Ran(CallSetField)
          => /\ interp'.heap[interp'.variables["p"].n]["x"] = Num(3)
             /\ interp'.variables = interp.variables
     /\ Ran(CharAssignment)
          => \A x \in DOMAIN interp.variables \ {"t"} :
               interp'.variables[x] = interp.variables[x]
     /\ Ran(NumberAssignment)
          => \A x \in DOMAIN interp.variables \ {"b"} :
               interp'.variables[x] = interp.variables[x]
    ]_vars

\* q was bound to p's struct, and the field written through q reads 2 through p
C6_SharedStruct ==
  /\ status = "running"
  /\ lastStmt = FieldAssignment
  /\ interp.variables["q"] = interp.variables["p"]
  /\ interp.heap[interp.variables["p"].n]["x"] = Num(2)


(***************************************************************************)
(* Parser (parser.ts).  A token is the record the tokenizer emits,         *)
(*   type, value, line, column, position                                   *)
(* with value the token's text as a sequence of characters.  The parser    *)
(* state ps is the record                                                  *)
(*   current, contextStack   the fields of the class (tokens is the        *)
(*                           variable of that name);                       *)
(*   err        the error thrown, or NoError; once an error is thrown      *)
(*              every later step of the parse is skipped;                  *)
(*   values     the values held by the local constants of the parse        *)
(*              methods in progress (token texts, nodes, lists), the       *)
(*              latest last: a parse method leaves its result on top;      *)
(*   declaring  history: the names of the function declarations open;      *)
(*   returns    history: for every return statement parsed, the name it    *)
(*              carries and the function declarations open at that point.  *)
(* The `code` field is read only to cut the snippet of a SyntaxError,      *)
(* which is left out of the error record.                                  *)
(***************************************************************************)
TokenType ==
  [SingleLineComment |-> "single_line_comment", MultiLineComment |-> "multi_line_comment",
   Whitespace |-> "whitespace", Return |-> "return",
   AccessOperator |-> "access_operator", Assignment |-> "assignment",
   Addition |-> "addition", FunctionDeclaration |-> "function_declaration",
   Identifier |-> "identifier", Number |-> "number", String |-> "string",
   Operator |-> "operator", Punctuation |-> "punctuation", Equals |-> "equals",
   Branching |-> "branching", Loop |-> "loop", Output |-> "output",
   Colon |-> "colon", Type |-> "type", LogicOperator |-> "logic_operator",
   AtSymbol |-> "at_symbol", None |-> "none", Bool |-> "bool", Dot |-> "dot",
   StructType |-> "struct_type"]

Token(type, value, line, column, position) ==
  [type |-> type, value |-> value, line |-> line, column |-> column, position |-> position]

NoError == [kind |-> "none", message |-> "", line |-> 0, column |-> 0, value |-> <<>>]

\* new SyntaxError(message, token.line, token.column, errorSnippet, token.value)
SyntaxError(message, token) ==
  [kind |-> "SyntaxError", message |-> message, line |-> token.line,
   column |-> token.column, value |-> token.value]

\* the TypeError of reading a property of undefined
TypeError == [kind |-> "TypeError", message |-> "Cannot read properties of undefined",
              line |-> 0, column |-> 0, value |-> <<>>]

\* new Error(message)
PlainError(message) ==
  [kind |-> "Error", message |-> message, line |-> 0, column |-> 0, value |-> <<>>]

ParserInit ==
  [current |-> 0, contextStack |-> <<>>, err |-> NoError, values |-> <<>>,
   declaring |-> <<>>, returns |-> <<>>]

Failed(ps) == ps.err.kind # "none"
Throw(ps, err) == IF Failed(ps) THEN ps ELSE [ps EXCEPT !.err = err]

\* the k-th latest value (1 is the latest)
Top(ps, k) == ps.values[Len(ps.values) - k + 1]
push(ps, v) == IF Failed(ps) THEN ps ELSE [ps EXCEPT !.values = Append(@, v)]

\* the latest 1, 2, 3 or 4 values are replaced by what Op builds from them
Build1(ps, Op(_)) ==
  IF Failed(ps) THEN ps
  ELSE [ps EXCEPT !.values = Append(SubSeq(@, 1, Len(@) - 1), Op(@[Len(@)]))]
Build2(ps, Op(_, _)) ==
  IF Failed(ps) THEN ps
  ELSE [ps EXCEPT !.values = Append(SubSeq(@, 1, Len(@) - 2), Op(@[Len(@) - 1], @[Len(@)]))]
Build3(ps, Op(_, _, _)) ==
  IF Failed(ps) THEN ps
  ELSE [ps EXCEPT !.values = Append(SubSeq(@, 1, Len(@) - 3),
                                    Op(@[Len(@) - 2], @[Len(@) - 1], @[Len(@)]))]
Build4(ps, Op(_, _, _, _)) ==
  IF Failed(ps) THEN ps
  ELSE [ps EXCEPT !.values = Append(SubSeq(@, 1, Len(@) - 4),
                                    Op(@[Len(@) - 3], @[Len(@) - 2], @[Len(@) - 1], @[Len(@)]))]

isAtEnd(ps) == ps.current >= Len(tokens)
peek(ps) == tokens[ps.current + 1]
previous(ps) == tokens[ps.current]
check(ps, type) == ~isAtEnd(ps) /\ peek(ps).type = type
match(ps, type) == check(ps, type)
peekIs(ps, type, value) == match(ps, type) /\ peek(ps).value = value

\* checkNext reads tokens[current + aheadIndex].type with no test that the
\* index is inside tokens: past the end it reads a property of undefined
checkNextThrows(ps, aheadIndex) ==
  ~isAtEnd(ps) /\ ps.current + aheadIndex >= Len(tokens)
checkNext(ps, type, aheadIndex) ==
  ~isAtEnd(ps) /\ tokens[ps.current + aheadIndex + 1].type = type

advance(ps) ==
  IF Failed(ps) \/ isAtEnd(ps) THEN ps ELSE [ps EXCEPT !.current = @ + 1]

\* `.value` of the token advance() or consume() returned (previous())
keep(ps) == IF Failed(ps) THEN ps ELSE push(ps, previous(ps).value)

\* token = this.tokens[this.current]; token.position is read first
throwErrorWithContext(ps, message) ==
  IF ps.current >= Len(tokens) THEN Throw(ps, TypeError)
  ELSE Throw(ps, SyntaxError(message, tokens[ps.current + 1]))

\* expectedValue <<>> stands for null
consume(ps, type, expectedValue, errorMessage) ==
  IF Failed(ps) THEN ps
  ELSE IF check(ps, type) /\ (expectedValue = <<>> \/ peek(ps).value = expectedValue)
  THEN advance(ps)
  ELSE throwErrorWithContext(ps, errorMessage)

getOperatorPrecedence(operator) ==
  CASE operator = <<"|", "|">> -> 1
    [] operator = <<"&", "&">> -> 2
    [] operator \in {<<"=", "=">>, <<"!", "=">>} -> 3
    [] operator \in {<<"<">>, <<">">>, <<"<", "=">>, <<">", "=">>} -> 4
    [] operator = <<".">> -> 5
    [] operator \in {<<"+">>, <<"-">>} -> 6
    [] operator \in {<<"*">>, <<"/">>} -> 7
    [] OTHER -> 0

\* parseFloat on the text of a Number token without a fraction
parseFloat(value) == CharsToNum(value)

\* properties[key] = value on a JS object: a key keeps its first position
SetProperty(properties, key, value) ==
  IF \E i \in DOMAIN properties.keys : properties.keys[i] = key
  THEN [keys |-> properties.keys,
        values |-> [i \in DOMAIN properties.values |->
                      IF properties.keys[i] = key THEN value ELSE properties.values[i]]]
  ELSE [keys |-> Append(properties.keys, key), values |-> Append(properties.values, value)]
NoProperties == [keys |-> <<>>, values |-> <<>>]

\* list.push(node)
pushNode(list, node) == Append(list, node)

\* `${type}<${innerType}>`
complexType(type, innerType) == type \o <<"<">> \o innerType \o <<">">>

RECURSIVE parseType(_)
parseType(ps) ==
  IF Failed(ps) THEN ps
  ELSE IF ~match(ps, TokenType.Type) THEN throwErrorWithContext(ps, "Expect type declaration")
  ELSE IF peek(ps).value = <<"a", "r", "r", "a", "y">>
  THEN Build2(consume(parseType(consume(keep(advance(ps)), TokenType.LogicOperator, <<"<">>,
                                         "Expect '<' for complex type")),
                      TokenType.LogicOperator, <<">">>, "Expect '>' for complex type"),
              complexType)
  ELSE IF peek(ps).value = <<"o", "b", "j", "e", "c", "t">>
  THEN Build2(consume(keep(consume(consume(keep(advance(ps)), TokenType.LogicOperator, <<"<">>,
                                            "Expect '<' for complex type"),
                                    TokenType.Identifier, <<>>,
                                    "Expect struct type name without $ symbol")),
                      TokenType.LogicOperator, <<">">>, "Expect '>' for complex type"),
              complexType)
  ELSE keep(advance(ps))

parseIdentifier(ps) ==
  Build1(keep(consume(ps, TokenType.Identifier, <<>>, "Expect variable or object name")),
         IdentifierNode)

\* new PropertyAccessNode(object, property)
propertyAccess(object, property) == PropertyAccessNode(object, property, FALSE)

RECURSIVE propertyPath(_)
\* while (this.match(TokenType.AccessOperator)) of parseIdentifierOrPropertyAccess
propertyPath(ps) ==
  IF Failed(ps) \/ ~match(ps, TokenType.AccessOperator) THEN ps
  ELSE propertyPath(
         Build2(keep(consume(consume(ps, TokenType.AccessOperator, <<"-", ">">>,
                                     "Expect '->' for property access"),
                             TokenType.Identifier, <<>>, "Expect property name")),
                propertyAccess))

parseIdentifierOrPropertyAccess(ps) == propertyPath(parseIdentifier(ps))

RECURSIVE parseExpression(_), parsePrimaryExpression(_), parseBinaryExpression(_)
RECURSIVE parseArgumentsLoop(_), parseRight(_, _), primaryPropertyLoop(_)
RECURSIVE parseValuesLoop(_), parsePropertiesLoop(_)

\* while (this.match(TokenType.Punctuation) && this.peek().value === ',' && this.advance())
argumentsNext(ps) ==
  IF ~Failed(ps) /\ peekIs(ps, TokenType.Punctuation, <<",">>)
  THEN parseArgumentsLoop(advance(ps)) ELSE ps

\* do { args.push(this.parseExpression()) } while (...)
parseArgumentsLoop(ps) == argumentsNext(Build2(parseExpression(ps), pushNode))

parseArguments(ps) ==
  IF Failed(ps) THEN ps
  ELSE IF check(ps, TokenType.Punctuation) THEN push(ps, <<>>)
  ELSE parseArgumentsLoop(push(ps, <<>>))

parseFunctionCall(ps) ==
  LET open == consume(ps, TokenType.Addition, <<"<", ">">>, "Expect '<>' for function call")
      name == keep(consume(open, TokenType.Identifier, <<>>, "Expect function name after '<>'"))
      colons == consume(name, TokenType.FunctionDeclaration, <<":", ":">>, "Expect '::' after function name")
      lpar == consume(colons, TokenType.Punctuation, <<"(">>, "Expect '(' for function arguments")
      args == parseArguments(lpar)
      rpar == consume(args, TokenType.Punctuation, <<")">>, "Expect ')' after function arguments")
  IN Build2(rpar, FunctionCallNode)

valuesNext(ps) ==
  IF ~Failed(ps) /\ peekIs(ps, TokenType.Punctuation, <<",">>)
  THEN parseValuesLoop(advance(ps)) ELSE ps

\* the do-while of parseTypeConstruction
parseValuesLoop(ps) == valuesNext(Build2(parseExpression(ps), pushNode))

parseTypeConstruction(ps) ==
  LET type == parseType(ps)
      lpar == consume(type, TokenType.Punctuation, <<"(">>, "Expect '(' to open type construction")
      values == parseValuesLoop(push(lpar, <<>>))
      rpar == consume(values, TokenType.Punctuation, <<")">>, "Expect ')' to close type construction")
  IN Build2(rpar, TypeConstructionNode)

parseIndexAccess(ps) ==
  LET objectId == parseIdentifier(ps)
      arrow == consume(objectId, TokenType.AccessOperator, <<"-", ">">>, "Expect '->' for index access")
      lpar == consume(arrow, TokenType.Punctuation, <<"(">>, "Expect '(' for index access")
      index == parseExpression(lpar)
      rpar == consume(index, TokenType.Punctuation, <<")">>, "Expect ')' after index")
  IN Build2(rpar, IndexAccessNode)

propertiesNext(ps) ==
  IF ~Failed(ps) /\ peekIs(ps, TokenType.Punctuation, <<",">>)
  THEN parsePropertiesLoop(consume(ps, TokenType.Punctuation, <<",">>,
                                   "Expect ',' between object fields description"))
  ELSE ps

\* the do-while of parseObjectLiteral
parsePropertiesLoop(ps) ==
  LET key == keep(consume(ps, TokenType.Identifier, <<>>, "Expect object property name"))
      colon == consume(key, TokenType.Colon, <<":">>, "Expect ':' after property name")
      value == parseExpression(colon)
  IN propertiesNext(Build3(value, SetProperty))

\* new ObjectLiteralNode(properties)
objectLiteral(properties) == ObjectLiteralNode(properties.keys, properties.values)

parseObjectLiteral(ps) ==
  LET lpar == consume(ps, TokenType.Punctuation, <<"(">>, "Expect '(' to start object literal")
      properties == parsePropertiesLoop(push(lpar, NoProperties))
      rpar == consume(properties, TokenType.Punctuation, <<")">>, "Expect ')' to end object literal")
  IN Build1(rpar, objectLiteral)

parseParenthesized(ps) ==
  LET lpar == consume(ps, TokenType.Punctuation, <<"(">>, "Expect '(' to open expression")
      expr == parseExpression(lpar)
  IN consume(expr, TokenType.Punctuation, <<")">>, "Expect ')' to close expression")

\* while (this.match(TokenType.AccessOperator) && this.advance())
primaryPropertyLoop(ps) ==
  IF Failed(ps) \/ ~match(ps, TokenType.AccessOperator) THEN ps
  ELSE primaryPropertyLoop(
         Build2(keep(consume(advance(ps), TokenType.Identifier, <<>>,
                             "Expect property name after '->'")),
                propertyAccess))

\* if (!(operand instanceof LiteralNode || operand instanceof IdentifierNode)) throw new Error(...)
unaryOperand(ps) ==
  IF Failed(ps) THEN ps
  ELSE IF Top(ps, 1).t \notin {"Literal", "Identifier"}
  THEN Throw(ps, PlainError("Unary operations are only supported for literals and variables"))
  ELSE Build2(ps, UnaryExpressionNode)

boolLiteral(value) == LiteralNode(Bool(value = <<"y", "e", "s">>))
numberLiteral(value) == LiteralNode(Num(parseFloat(value)))
\* value.slice(1, -1)
stringLiteral(value) == LiteralNode(Str(SubSeq(value, 2, Len(value) - 1)))

parsePrimaryExpression(ps) ==
  IF Failed(ps) THEN ps
  ELSE IF match(ps, TokenType.Operator) /\ peek(ps).value \in {<<"-">>, <<"!">>}
  THEN unaryOperand(parsePrimaryExpression(keep(advance(ps))))
  ELSE IF match(ps, TokenType.Bool) THEN Build1(keep(advance(ps)), boolLiteral)
  ELSE IF match(ps, TokenType.Number) THEN Build1(keep(advance(ps)), numberLiteral)
  ELSE IF match(ps, TokenType.String) THEN Build1(keep(advance(ps)), stringLiteral)
  ELSE IF match(ps, TokenType.Type) THEN parseTypeConstruction(ps)
  ELSE IF match(ps, TokenType.Identifier)
  THEN IF checkNextThrows(ps, 1) THEN Throw(ps, TypeError)
       ELSE IF checkNext(ps, TokenType.AccessOperator, 1) /\ checkNextThrows(ps, 2)
       THEN Throw(ps, TypeError)
       ELSE IF checkNext(ps, TokenType.AccessOperator, 1) /\ checkNext(ps, TokenType.Punctuation, 2)
       THEN parseIndexAccess(ps)
       ELSE primaryPropertyLoop(Build1(keep(advance(ps)), IdentifierNode))
  ELSE IF peekIs(ps, TokenType.Punctuation, <<"(">>)
  THEN IF checkNextThrows(ps, 1) THEN Throw(ps, TypeError)
       ELSE IF checkNext(ps, TokenType.Identifier, 1) /\ checkNextThrows(ps, 2)
       THEN Throw(ps, TypeError)
       ELSE IF checkNext(ps, TokenType.Identifier, 1) /\ checkNext(ps, TokenType.Colon, 2)
       THEN parseObjectLiteral(ps)
       ELSE parseParenthesized(ps)
  ELSE IF match(ps, TokenType.Addition) THEN parseFunctionCall(ps)
  ELSE throwErrorWithContext(ps, "Unexpected token in expression")

isBinaryOperator(ps) ==
  match(ps, TokenType.Operator) \/ match(ps, TokenType.LogicOperator) \/ match(ps, TokenType.Dot)

\* while (!isAtEnd() && getOperatorPrecedence(peek().value) > precedence)
\*   right = this.parseBinaryExpression(right)
parseRight(ps, precedence) ==
  IF Failed(ps) \/ isAtEnd(ps) THEN ps
  ELSE IF getOperatorPrecedence(peek(ps).value) > precedence
  THEN parseRight(parseBinaryExpression(ps), precedence)
  ELSE ps

\* the latest value is `left`; one turn of the while loop pushes the operator
\* and `right`, and replaces the three by the new `left`
parseBinaryExpression(ps) ==
  IF Failed(ps) \/ ~isBinaryOperator(ps) THEN ps
  ELSE parseBinaryExpression(
         Build3(parseRight(parsePrimaryExpression(keep(advance(ps))),
                           getOperatorPrecedence(peek(ps).value)),
                BinaryExpressionNode))

expressionRest(ps) ==
  IF ~Failed(ps) /\ isBinaryOperator(ps) THEN parseBinaryExpression(ps) ELSE ps

parseExpression(ps) == expressionRest(parsePrimaryExpression(ps))

RECURSIVE parseStatement(_), parseBlockLoop(_), parseParametersLoop(_)
RECURSIVE parseFieldsLoop(_), parseProgramLoop(_)

declarationWithValue(name, type, value) == VariableDeclarationNode(name, type, <<value>>)
declarationWithoutValue(name, type) == VariableDeclarationNode(name, type, <<>>)

\* if (this.match(TokenType.Equals)) { this.advance(); value = this.parseExpression(); }
variableInitializer(ps) ==
  IF ~Failed(ps) /\ match(ps, TokenType.Equals)
  THEN Build3(parseExpression(advance(ps)), declarationWithValue)
  ELSE Build2(ps, declarationWithoutValue)

parseVariableDeclaration(ps) ==
  LET plus == consume(ps, TokenType.Operator, <<"+">>, "Expect '+' for variable declaration")
      name == keep(consume(plus, TokenType.Identifier, <<>>, "Expect variable name"))
      tilde == consume(name, TokenType.Punctuation, <<"~">>, "Expect '~' before variable type declaration")
      type == parseType(tilde)
  IN variableInitializer(type)

\* if (name instanceof PropertyAccessNode) name.isAssignment = true
assignment(name, value) ==
  AssignmentNode(IF name.t = "PropertyAccess" THEN [name EXCEPT !.flag = TRUE] ELSE name, value)

parseAssignment(ps) ==
  LET arrow == consume(ps, TokenType.Assignment, <<>>, "Expect '<-' for assignment")
      name == parseIdentifierOrPropertyAccess(arrow)
      equals == consume(name, TokenType.Equals, <<>>, "Expect '=' after variable name")
      value == parseExpression(equals)
  IN Build2(value, assignment)

parseIndexAssignment(ps) ==
  LET objectId == parseIdentifier(ps)
      arrow == consume(objectId, TokenType.AccessOperator, <<"-", ">">>, "Expect '->' for index access")
      lpar == consume(arrow, TokenType.Punctuation, <<"(">>, "Expect '(' for index access")
      index == parseExpression(lpar)
      rpar == consume(index, TokenType.Punctuation, <<")">>, "Expect ')' after index")
      equals == consume(rpar, TokenType.Equals, <<"=">>, "Expect '=' for index assignment")
      value == parseExpression(equals)
  IN Build3(value, IndexAssignmentNode)

parseOutput(ps) ==
  Build1(parseExpression(consume(ps, TokenType.Output, <<"^", "^">>, "Expect '^^' for output")),
         OutputNode)

\* if (!this.contextStack.includes('function')) this.throwErrorWithContext(...)
insideFunction(ps) ==
  IF \E i \in DOMAIN ps.contextStack : ps.contextStack[i] = "function" THEN ps
  ELSE throwErrorWithContext(ps, "'return' can only be used inside a function")

\* history: the name the return carries, and the function declarations open
recordReturn(ps) ==
  IF Failed(ps) THEN ps
  ELSE [ps EXCEPT !.returns = Append(@, [name |-> Top(ps, 2), declaring |-> ps.declaring])]

\* new ReturnNode(returnValue): the name consumed is not kept
returnNode(name, returnValue) == ReturnNode(returnValue)

parseReturnStatement(ps) ==
  LET at == consume(insideFunction(ps), TokenType.AtSymbol, <<>>, "Expect '@' for return construction")
      name == keep(consume(at, TokenType.Identifier, <<>>, "Expect a the fuction name for return construction"))
      arrow == consume(name, TokenType.Assignment, <<"<", "-">>, "Expect '<-' for return assignment")
      returnValue == parseExpression(arrow)
  IN Build2(recordReturn(returnValue), returnNode)

\* which arm of parseSemicolonStatement's if-chain is taken; "TypeError" when
\* a checkNext of the chain reads past the end of tokens
semicolonStatementKind(ps) ==
  IF peekIs(ps, TokenType.Operator, <<"+">>) THEN "VariableDeclaration"
  ELSE IF match(ps, TokenType.Addition) THEN "FunctionCall"
  ELSE IF match(ps, TokenType.Assignment) THEN "Assignment"
  ELSE IF match(ps, TokenType.Identifier) /\ checkNextThrows(ps, 1) THEN "TypeError"
  ELSE IF match(ps, TokenType.Identifier) /\ checkNext(ps, TokenType.AccessOperator, 1)
  THEN "IndexAssignment"
  ELSE IF match(ps, TokenType.Output) THEN "Output"
  ELSE IF match(ps, TokenType.AtSymbol) /\ checkNextThrows(ps, 1) THEN "TypeError"
  ELSE IF match(ps, TokenType.AtSymbol) /\ checkNext(ps, TokenType.Identifier, 1)
          /\ checkNextThrows(ps, 2) THEN "TypeError"
  ELSE IF match(ps, TokenType.AtSymbol) /\ checkNext(ps, TokenType.Identifier, 1)
          /\ checkNext(ps, TokenType.Assignment, 2) THEN "Return"
  ELSE "null"

semicolonStatement(ps, kind) ==
  CASE kind = "VariableDeclaration" -> parseVariableDeclaration(ps)
    [] kind = "FunctionCall" -> parseFunctionCall(ps)
    [] kind = "Assignment" -> parseAssignment(ps)
    [] kind = "IndexAssignment" -> parseIndexAssignment(ps)
    [] kind = "Output" -> parseOutput(ps)
    [] kind = "Return" -> parseReturnStatement(ps)

\* leaves the statement, or NoNode for null
semicolonStatementOf(ps, kind) ==
  IF kind = "TypeError" THEN Throw(ps, TypeError)
  ELSE IF kind = "null" THEN push(ps, NoNode)
  ELSE consume(semicolonStatement(ps, kind), TokenType.Punctuation, <<";">>,
               "Expected ';' as end of the statement")

parseSemicolonStatement(ps) == semicolonStatementOf(ps, semicolonStatementKind(ps))

\* while (!this.check(TokenType.Punctuation) && !this.isAtEnd())
parseBlockLoop(ps) ==
  IF Failed(ps) \/ check(ps, TokenType.Punctuation) \/ isAtEnd(ps) THEN ps
  ELSE parseBlockLoop(Build2(parseStatement(ps), pushNode))

parseBlock(ps) ==
  LET bar == consume(ps, TokenType.Punctuation, <<"|">>, "Expect '|' to start block")
      statements == parseBlockLoop(push(bar, <<>>))
  IN consume(statements, TokenType.Punctuation, <<"~">>, "Expect '~' to end block")

branchingWithoutElse(condition, trueBranch) == BranchingNode(condition, trueBranch, <<>>)

\* if (this.match(TokenType.Colon)) { this.advance(); falseBranch = this.parseBlock(); }
falseBranch(ps) ==
  IF ~Failed(ps) /\ match(ps, TokenType.Colon)
  THEN Build3(parseBlock(advance(ps)), BranchingNode)
  ELSE Build2(ps, branchingWithoutElse)

parseBranching(ps) ==
  LET mark == consume(ps, TokenType.Branching, <<"?">>, "Expect '?' for branching statement")
      lbr == consume(mark, TokenType.Punctuation, <<"[">>, "Expect '[' for condition start")
      condition == parseExpression(lbr)
      rbr == consume(condition, TokenType.Punctuation, <<"]">>, "Expect ']' for condition end")
      trueBranch == parseBlock(rbr)
  IN falseBranch(trueBranch)

parseLoop(ps) ==
  LET mark == consume(ps, TokenType.Loop, <<"%">>, "Expect '%' for loop statement")
      lbr == consume(mark, TokenType.Punctuation, <<"[">>, "Expect '[' for loop condition start")
      condition == parseExpression(lbr)
      rbr == consume(condition, TokenType.Punctuation, <<"]">>, "Expect ']' for loop condition end")
      body == parseBlock(rbr)
  IN Build2(body, LoopNode)

NoParameters == [names |-> <<>>, types |-> <<>>]

\* parameters.push({ name: paramName, type: paramType })
pushParameter(parameters, paramName, paramType) ==
  [names |-> Append(parameters.names, paramName), types |-> Append(parameters.types, paramType)]

parametersNext(ps) ==
  IF ~Failed(ps) /\ peekIs(ps, TokenType.Punctuation, <<"&">>)
  THEN parseParametersLoop(advance(ps)) ELSE ps

\* the do-while of parseParameters
parseParametersLoop(ps) ==
  LET paramName == keep(consume(ps, TokenType.Identifier, <<>>, "Expect parameter name"))
      tilde == consume(paramName, TokenType.Punctuation, <<"~">>, "Expect '~' after parameter identifier")
      paramType == parseType(tilde)
  IN parametersNext(Build3(paramType, pushParameter))

parseParameters(ps) ==
  IF Failed(ps) THEN ps
  ELSE IF match(ps, TokenType.None)
  THEN push(consume(ps, TokenType.None, <<>>, "Expect 'none' in a case when function has no parameters"),
            NoParameters)
  ELSE consume(parseParametersLoop(push(consume(ps, TokenType.LogicOperator, <<"<">>,
                                                "Expect '<' to start parameter list"),
                                        NoParameters)),
               TokenType.LogicOperator, <<">">>, "Expect '>' to end parameter list")

\* this.contextStack.push('function')
pushContext(ps) == IF Failed(ps) THEN ps ELSE [ps EXCEPT !.contextStack = Append(@, "function")]

\* this.contextStack.pop(); the declaration is no longer open
popContext(ps) ==
  IF Failed(ps) THEN ps
  ELSE [ps EXCEPT !.contextStack = SubSeq(@, 1, Len(@) - 1),
                  !.declaring = SubSeq(@, 1, Len(@) - 1)]

\* history: the declaration of the function just named is open
openDeclaration(ps) ==
  IF Failed(ps) THEN ps ELSE [ps EXCEPT !.declaring = Append(@, Top(ps, 1))]

\* new FunctionDeclarationNode(name, parameters, returnType, body)
functionDeclaration(name, parameters, returnType, body) ==
  FunctionDeclarationNode(name, parameters.names, parameters.types, returnType, body)

parseFunctionDeclaration(ps) ==
  LET at == consume(pushContext(ps), TokenType.AtSymbol, <<>>, "Expect '@' for function declaration")
      name == openDeclaration(keep(consume(at, TokenType.Identifier, <<>>, "Expect function name")))
      colons == consume(name, TokenType.FunctionDeclaration, <<":", ":">>, "Expect '::'")
      parameters == parseParameters(colons)
      arrow == consume(parameters, TokenType.AccessOperator, <<>>, "Expect '->' after parameters")
      returnType == keep(consume(arrow, TokenType.Type, <<>>, "Expect return type"))
      body == parseBlock(returnType)
  IN popContext(Build4(body, functionDeclaration))

\* fields[fieldName] = fieldType
setField(fields, fieldName, fieldType) ==
  [names |-> SetProperty([keys |-> fields.names, values |-> fields.types], fieldName, fieldType).keys,
   types |-> SetProperty([keys |-> fields.names, values |-> fields.types], fieldName, fieldType).values]

\* while (this.match(TokenType.Identifier))
fieldsNext(ps) ==
  IF ~Failed(ps) /\ match(ps, TokenType.Identifier) THEN parseFieldsLoop(ps) ELSE ps

\* the do-while of parseStructType
parseFieldsLoop(ps) ==
  LET fieldName == keep(consume(ps, TokenType.Identifier, <<>>, "Expect field name"))
      colon == consume(fieldName, TokenType.Colon, <<":">>, "Expect ':' after field name")
      fieldType == parseType(colon)
      semicolon == consume(fieldType, TokenType.Punctuation, <<";">>, "Expect ';' after field declaration")
  IN fieldsNext(Build3(semicolon, setField))

\* key.value.replace('$', '') drops the leading '$' of a StructType token
structType(key, fields) == StructTypeNode(Tail(key), fields.names, fields.types)

parseStructType(ps) ==
  LET key == keep(consume(ps, TokenType.StructType, <<>>, "Expect struct type name declaration"))
      colons == consume(key, TokenType.FunctionDeclaration, <<>>, "Expect sign '::' after struct type name")
      lbrace == consume(colons, TokenType.Punctuation, <<"{">>, "Expect '{' to start struct type")
      fields == parseFieldsLoop(push(lbrace, NoParameters))
      rbrace == consume(fields, TokenType.Punctuation, <<"}">>, "Expect '}' to end struct type")
  IN Build2(rbrace, structType)

\* the rest of parseStatement once parseSemicolonStatement has returned
\* (semicolonStmt); a null statement has consumed nothing
statementAfter(ps, semicolonStmt) ==
  IF Failed(semicolonStmt) \/ Top(semicolonStmt, 1).t # "None" THEN semicolonStmt
  ELSE IF match(ps, TokenType.AtSymbol) THEN parseFunctionDeclaration(ps)
  ELSE IF match(ps, TokenType.Branching) THEN parseBranching(ps)
  ELSE IF match(ps, TokenType.Loop) THEN parseLoop(ps)
  ELSE IF match(ps, TokenType.Colon) THEN parseExpression(ps)
  ELSE throwErrorWithContext(ps, "Unexpected statement")

parseStatement(ps) ==
  IF Failed(ps) THEN ps
  ELSE IF match(ps, TokenType.StructType) THEN parseStructType(ps)
  ELSE statementAfter(ps, parseSemicolonStatement(ps))

\* while (!this.isAtEnd()) statements.push(this.parseStatement())
parseProgramLoop(ps) ==
  IF Failed(ps) \/ isAtEnd(ps) THEN ps
  ELSE parseProgramLoop(Build2(parseStatement(ps), pushNode))

parseProgram(ps) == parseProgramLoop(push(ps, <<>>))

\* what parse() leaves: the ProgramNode's statements, or the error thrown
parseOutcome(ps) ==
  [run |-> TRUE,
   err |-> ps.err,
   statements |-> IF Failed(ps) THEN <<>> ELSE Top(ps, 1),
   current |-> ps.current,
   returns |-> ps.returns]

\* Parser.parse()
parse == parseOutcome(parseProgram(ParserInit))

(***************************************************************************)
(* Inputs of the parser: token lists as the tokenizer emits them for a     *)
(* source text written on one line with one space between tokens.          *)
(***************************************************************************)
Lex(type, value) == [type |-> type, value |-> value]

RECURSIVE StartOf(_, _)
\* the position of the i-th token's first character
StartOf(lexemes, i) ==
  IF i = 1 THEN 0 ELSE StartOf(lexemes, i - 1) + Len(lexemes[i - 1].value) + 1

Layout(lexemes) ==
  [i \in DOMAIN lexemes |->
     Token(lexemes[i].type, lexemes[i].value, 1, StartOf(lexemes, i) + 1, StartOf(lexemes, i))]

LId(c) == Lex(TokenType.Identifier, <<c>>)
LNum(c) == Lex(TokenType.Number, <<c>>)
LPunct(c) == Lex(TokenType.Punctuation, <<c>>)
LOp(c) == Lex(TokenType.Operator, <<c>>)
LLogic(v) == Lex(TokenType.LogicOperator, v)
LType(v) == Lex(TokenType.Type, v)
LOut == Lex(TokenType.Output, <<"^", "^">>)
LSemi == LPunct(";")
LAt == Lex(TokenType.AtSymbol, <<"@">>)
LAssign == Lex(TokenType.Assignment, <<"<", "-">>)
LEquals == Lex(TokenType.Equals, <<"=">>)
LArrow == Lex(TokenType.AccessOperator, <<"-", ">">>)
LColons == Lex(TokenType.FunctionDeclaration, <<":", ":">>)
LCall == Lex(TokenType.Addition, <<"<", ">">>)
LNone == Lex(TokenType.None, <<"n", "o", "n", "e">>)
LYes == Lex(TokenType.Bool, <<"y", "e", "s">>)
LColon == Lex(TokenType.Colon, <<":">>)
LBranch == Lex(TokenType.Branching, <<"?">>)
LLoop == Lex(TokenType.Loop, <<"%">>)
LNumber == LType(<<"n", "u", "m", "b", "e", "r">>)
LVoid == LType(<<"v", "o", "i", "d">>)
LString == LType(<<"s", "t", "r", "i", "n", "g">>)
LObject == LType(<<"o", "b", "j", "e", "c", "t">>)
LStruct(c) == Lex(TokenType.StructType, <<"$", c>>)
LStr(c) == Lex(TokenType.String, <<"\"", c, "\"">>)

BinaryOperatorLexemes ==
  {LLogic(<<"|", "|">>), LLogic(<<"&", "&">>), LLogic(<<"=", "=">>), LLogic(<<"!", "=">>),
   LLogic(<<"<">>), LLogic(<<">">>), LLogic(<<"<", "=">>), LLogic(<<">", "=">>),
   Lex(TokenType.Dot, <<".">>), LOp("+"), LOp("-"), LOp("*"), LOp("/")}

\* ^^ a o1 b ;     ^^ a o1 b o2 c ;     ^^ a o1 b o2 c o3 d ;
ExpressionInputs ==
  {<<LOut, LId("a"), o1, LId("b"), LSemi>> : o1 \in BinaryOperatorLexemes}
  \cup {<<LOut, LId("a"), o[1], LId("b"), o[2], LId("c"), LSemi>> :
          o \in BinaryOperatorLexemes \X BinaryOperatorLexemes}
  \cup {<<LOut, LId("a"), o[1], LId("b"), o[2], LId("c"), o[3], LId("d"), LSemi>> :
          o \in BinaryOperatorLexemes \X BinaryOperatorLexemes \X BinaryOperatorLexemes}

FunctionNames == {"f", "g"}

\* @ f :: none -> number |
FunctionHead(name) == <<LAt, LId(name), LColons, LNone, LArrow, LNumber, LPunct("|")>>
\* @ n <- 1 ;
ReturnOf(name) == <<LAt, LId(name), LAssign, LNum("1"), LSemi>>

ReturnInputs ==
  \* @ n <- 1 ;
  {ReturnOf(n) : n \in FunctionNames}
  \* @ f :: none -> number | @ n <- 1 ; ~
  \cup {FunctionHead("f") \o ReturnOf(n) \o <<LPunct("~")>> : n \in FunctionNames}
  \* @ f :: none -> number | ? [ yes ] | @ n <- 1 ; ~ ~
  \cup {FunctionHead("f") \o <<LBranch, LPunct("["), LYes, LPunct("]"), LPunct("|")>>
          \o ReturnOf(n) \o <<LPunct("~"), LPunct("~")>> : n \in FunctionNames}
  \* @ f :: none -> number | @ f <- 1 ; ~ @ n <- 1 ;
  \cup {FunctionHead("f") \o ReturnOf("f") \o <<LPunct("~")>> \o ReturnOf(n) : n \in FunctionNames}
  \* @ f :: none -> number | @ g :: none -> number | @ n <- 1 ; ~ @ m <- 1 ; ~
  \cup {FunctionHead("f") \o FunctionHead("g") \o ReturnOf(nm[1]) \o <<LPunct("~")>>
          \o ReturnOf(nm[2]) \o <<LPunct("~")>> : nm \in FunctionNames \X FunctionNames}

Programs == {
  \* + a ~ number = 1 ;
  <<LOp("+"), LId("a"), LPunct("~"), LNumber, LEquals, LNum("1"), LSemi>>,
  \* + p ~ object < P > = ( x : 1 , y : "s" ) ;
  <<LOp("+"), LId("p"), LPunct("~"), LObject, LLogic(<<"<">>), LId("P"), LLogic(<<">">>), LEquals,
    LPunct("("), LId("x"), LColon, LNum("1"), LPunct(","), LId("y"), LColon, LStr("s"),
    LPunct(")"), LSemi>>,
  \* $P :: { x : number ; y : string ; }
  <<LStruct("P"), LColons, LPunct("{"), LId("x"), LColon, LNumber, LSemi,
    LId("y"), LColon, LString, LSemi, LPunct("}")>>,
  \* <- a = a + 1 ;
  <<LAssign, LId("a"), LEquals, LId("a"), LOp("+"), LNum("1"), LSemi>>,
  \* <- p -> x = ( a + 1 ) * 2 ;
  <<LAssign, LId("p"), LArrow, LId("x"), LEquals, LPunct("("), LId("a"), LOp("+"), LNum("1"),
    LPunct(")"), LOp("*"), LNum("2"), LSemi>>,
  \* s -> ( 0 ) = "z" ;
  <<LId("s"), LArrow, LPunct("("), LNum("0"), LPunct(")"), LEquals, LStr("z"), LSemi>>,
  \* ^^ a ;
  <<LOut, LId("a"), LSemi>>,
  \* ^^ p -> x ;
  <<LOut, LId("p"), LArrow, LId("x"), LSemi>>,
  \* ^^ s -> ( 0 ) ;
  <<LOut, LId("s"), LArrow, LPunct("("), LNum("0"), LPunct(")"), LSemi>>,
  \* ^^ string ( 3 ) ;
  <<LOut, LString, LPunct("("), LNum("3"), LPunct(")"), LSemi>>,
  \* <> f :: ( a , 1 ) ;
  <<LCall, LId("f"), LColons, LPunct("("), LId("a"), LPunct(","), LNum("1"), LPunct(")"), LSemi>>,
  \* @ f :: < a ~ number & b ~ number > -> number | @ f <- a ; ~
  <<LAt, LId("f"), LColons, LLogic(<<"<">>), LId("a"), LPunct("~"), LNumber, LPunct("&"),
    LId("b"), LPunct("~"), LNumber, LLogic(<<">">>), LArrow, LNumber, LPunct("|"),
    LAt, LId("f"), LAssign, LId("a"), LSemi, LPunct("~")>>,
  \* ? [ a < 1 ] | ^^ a ; ~ : | ^^ 1 ; ~
  <<LBranch, LPunct("["), LId("a"), LLogic(<<"<">>), LNum("1"), LPunct("]"), LPunct("|"),
    LOut, LId("a"), LSemi, LPunct("~"), LColon, LPunct("|"), LOut, LNum("1"), LSemi, LPunct("~")>>,
  \* % [ a < 3 ] | <- a = a + 1 ; ~
  <<LLoop, LPunct("["), LId("a"), LLogic(<<"<">>), LNum("3"), LPunct("]"), LPunct("|"),
    LAssign, LId("a"), LEquals, LId("a"), LOp("+"), LNum("1"), LSemi, LPunct("~")>>,
  \* ^^ - a ;
  <<LOut, LOp("-"), LId("a"), LSemi>>,
  \* ^^ - 1 ;
  <<LOut, LOp("-"), LNum("1"), LSemi>>,
  \* ^^ - ( a ) ;
  <<LOut, LOp("-"), LPunct("("), LId("a"), LPunct(")"), LSemi>>,
  \* ^^ - - a ;
  <<LOut, LOp("-"), LOp("-"), LId("a"), LSemi>>,
  \* ^^ - ( a + b ) ;
  <<LOut, LOp("-"), LPunct("("), LId("a"), LOp("+"), LId("b"), LPunct(")"), LSemi>>,
  \* ^^ - <> f :: ( ) ;
  <<LOut, LOp("-"), LCall, LId("f"), LColons, LPunct("("), LPunct(")"), LSemi>>
}

\* p without its i-th token
Without(p, i) == SubSeq(p, 1, i - 1) \o SubSeq(p, i + 1, Len(p))

\* every program, every program cut short, every program with one token left out
BrokenInputs ==
  Programs
  \cup UNION {{SubSeq(p, 1, n) : n \in 0..Len(p)} : p \in Programs}
  \cup UNION {{Without(p, i) : i \in 1..Len(p)} : p \in Programs}

ParserInputs == {Layout(l) : l \in ExpressionInputs \cup ReturnInputs \cup BrokenInputs}

InitParse ==
  /\ tokens \in ParserInputs
  /\ parsed = NotParsed
  /\ interp = InterpInit
  /\ analyzer = AnalyzerInit
  /\ status = "running"
  /\ lastStmt = NoNode
  /\ nstmts = 0
  /\ program = <<>>
  /\ outcomes = <<>>
  /\ tokenizer = NotTokenizing

\* new Parser(code, tokens).parse()
Parse ==
  /\ ~parsed.run
  /\ parsed' = parse
  /\ UNCHANGED <<interp, analyzer, status, lastStmt, nstmts, tokens, program, outcomes, tokenizer>>

NextParse == Parse

SpecParse == InitParse /\ [][NextParse]_vars

(***************************************************************************)
(* Properties of the parser (SpecParse).                                   *)
(***************************************************************************)
Children(node) == node.a \o node.b \o node.c

RECURSIVE PrecedenceRespected(_)
\* nowhere in the tree is a binary expression the operand of a binary
\* operator of higher precedence
PrecedenceRespected(node) ==
  /\ node.t = "BinaryExpression" =>
       \A i \in DOMAIN Children(node) :
         Children(node)[i].t = "BinaryExpression" =>
           getOperatorPrecedence(Children(node)[i].name) >= getOperatorPrecedence(node.name)
  /\ \A i \in DOMAIN Children(node) : PrecedenceRespected(Children(node)[i])

Unparenthesised == \A i \in DOMAIN tokens : tokens[i].value # <<"(">>
Accepted == parsed.run /\ parsed.err.kind = "none"

\* C7: for an unparenthesised binary expression the parser builds the tree
\* of the precedence table: an operator of lower precedence is never an
\* operand of an operator of higher precedence.
C7_PrecedenceTree ==
  (Accepted /\ Unparenthesised) =>
    \A i \in DOMAIN parsed.statements : PrecedenceRespected(parsed.statements[i])

\* ^^ a + b * c < d ;  parses to  a + ((b * c) < d): the root is +, and < is
\* its right operand
C7_RootIsPlus ==
  /\ Accepted
  /\ tokens = Layout(<<LOut, LId("a"), LOp("+"), LId("b"), LOp("*"), LId("c"),
                        LLogic(<<"<">>), LId("d"), LSemi>>)
  /\ parsed.statements[1].a[1].name = <<"+">>
  /\ parsed.statements[1].a[1].b[1].name = <<"<">>

\* C8: a return statement is accepted only inside the body of a function
\* declaration and only when it names the enclosing function.
C8_ReturnNamesEnclosingFunction ==
  Accepted =>
    \A i \in DOMAIN parsed.returns :
      /\ parsed.returns[i].declaring # <<>>
      /\ parsed.returns[i].name =
           parsed.returns[i].declaring[Len(parsed.returns[i].declaring)]

\* @ f :: none -> number | @ g <- 1 ; ~  is accepted
C8_WrongNameAccepted ==
  /\ Accepted
  /\ \E i \in DOMAIN parsed.returns :
       parsed.returns[i].declaring = <<(<<"f">>)>> /\ parsed.returns[i].name = <<"g">>

\* C9: a parse that fails fails with a SyntaxError carrying the line, the
\* column and the text of the token at which the expectation was unmet; no
\* other kind of error leaves parse.
C9_OnlySyntaxErrors ==
  (parsed.run /\ parsed.err.kind # "none") =>
    /\ parsed.err.kind = "SyntaxError"
    /\ parsed.current < Len(tokens)
    /\ parsed.err.line = tokens[parsed.current + 1].line
    /\ parsed.err.column = tokens[parsed.current + 1].column
    /\ parsed.err.value = tokens[parsed.current + 1].value

\* the token list ends where the parser expects more, and a TypeError leaves parse
C9_TypeErrorAtEnd ==
  /\ parsed.run
  /\ parsed.err.kind = "TypeError"
  /\ tokens # <<>>
  /\ parsed.current = Len(tokens)


(***************************************************************************)
(* Two runs of one SemanticAnalyzer on one AST (semantic.ts):              *)
(*   const analyzer = new SemanticAnalyzer();                              *)
(*   analyzer.visitProgramNode(ast);  analyzer.visitProgramNode(ast);      *)
(* program is the list of statements of the ProgramNode, analyzer the      *)
(* fields of the instance, outcomes the message of the Error each run      *)
(* threw ("" when it returned).                                            *)
(***************************************************************************)
AnalyzePool == {
  OutputNode(LitNum(1)),                                             \* ^^ 1;
  VariableDeclarationNode("a", TNumber, <<LitNum(1)>>),              \* +a~number = 1;
  VariableDeclarationNode("b", TNumber, <<Id("a")>>),                \* +b~number = a;
  AssignmentNode(Id("a"), Bin(Id("a"), "+", LitNum(5))),             \* <-a = a + 5;
  StructTypeNode("P", <<"x">>, <<TNumber>>),                         \* $P::{ x: number; }
  VariableDeclarationNode("p", TObject("P"),                         \* +p~object<P> = (x: 1);
     <<ObjectLiteralNode(<<"x">>, <<LitNum(1)>>)>>),
  FunUsesGlobal,
  FunctionCallNode("g", <<>>),                                       \* <>g::();
  OutputNode(Id("a"))                                                \* ^^ a;
} \cup BranchingPool

RECURSIVE ProgramsOfLength(_)
ProgramsOfLength(n) ==
  IF n = 0 THEN {<<>>}
  ELSE {Append(statements, stmt) : statements \in ProgramsOfLength(n - 1), stmt \in AnalyzePool}

AnalyzeInputs == UNION {ProgramsOfLength(n) : n \in 0..MaxProgram}

InitAnalyze ==
  /\ program \in AnalyzeInputs
  /\ analyzer = AnalyzerInit
  /\ outcomes = <<>>
  /\ tokenizer = NotTokenizing
  /\ interp = InterpInit
  /\ status = "running"
  /\ lastStmt = NoNode
  /\ nstmts = 0
  /\ tokens = <<>>
  /\ parsed = NotParsed

\* analyzer.visitProgramNode(ast), for the first and for the second time
Analyze ==
  /\ Len(outcomes) < 2
  /\ \E r \in {SA_visitStatements(program, 1, analyzer)} :
       /\ analyzer' = r.az
       /\ outcomes' = Append(outcomes, r.err)
  /\ UNCHANGED <<program, interp, status, lastStmt, nstmts, tokens, parsed, tokenizer>>

NextAnalyze == Analyze

SpecAnalyze == InitAnalyze /\ [][NextAnalyze]_vars

\* the first run returned: the program is well typed
WellTyped == Len(outcomes) >= 1 /\ outcomes[1] = ""

\* C10: the second run of analyze on the same AST with the same analyzer
\* succeeds like the first; nothing the first run registered changes it.
C10_SecondRunSucceeds ==
  (WellTyped /\ Len(outcomes) = 2) => outcomes[2] = ""

\* +a~number = 1;  is well typed, and the second run finds a declared
C10_SecondRunRedeclares ==
  /\ WellTyped
  /\ Len(outcomes) = 2
  /\ program = <<VariableDeclarationNode("a", TNumber, <<LitNum(1)>>)>>
  /\ outcomes[2] = "Variable 'a' is already declared."


(***************************************************************************)
(* The analysis of one program (semantic.ts): SemanticAnalyzer on the AST  *)
(* of programs built to reach each rule of the analyzer.  The action is    *)
(* Analyze; outcomes[1] is the message of the Error the analysis threw,    *)
(* "" when it returned.                                                    *)
(***************************************************************************)
Analyzed == Len(outcomes) >= 1
Passed == Analyzed /\ outcomes[1] = ""

\* --- function bodies with and without returns
Return1 == ReturnNode(LitNum(1))                                     \* @f <- 1;
Output1 == OutputNode(LitNum(1))                                     \* ^^ 1;
Arms == {<<>>, <<Return1>>, <<Output1>>}

BodyStatements ==
  {Return1, Output1}
  \cup {BranchingNode(LitBool(TRUE), t, f) : t \in Arms, f \in Arms}   \* ?[yes] | t ~ : | f ~
  \cup {LoopNode(LitBool(TRUE), b) : b \in Arms \ {<<>>}}            \* %[yes] | b ~
  \cup {LoopNode(LitBool(TRUE), <<BranchingNode(LitBool(TRUE), <<Return1>>, <<>>)>>),
        BranchingNode(LitBool(TRUE), <<LoopNode(LitBool(TRUE), <<Return1>>)>>, <<>>)}

RECURSIVE BodiesOfLength(_)
BodiesOfLength(n) ==
  IF n = 0 THEN {<<>>}
  ELSE {Append(body, stmt) : body \in BodiesOfLength(n - 1), stmt \in BodyStatements}

\* @f::none -> number | body ~
FunctionBodyInputs ==
  {<<FunctionDeclarationNode("f", <<>>, <<>>, TNumber, body)>> :
     body \in UNION {BodiesOfLength(n) : n \in 0..MaxBody}}

\* --- object literals against registered struct types
StructP == StructTypeNode("P", <<"x">>, <<TNumber>>)                   \* $P::{ x: number; }
StructQ == StructTypeNode("Q", <<"x">>, <<TNumber>>)                   \* $Q::{ x: number; }
StructR == StructTypeNode("R", <<"x">>, <<TString>>)                   \* $R::{ x: string; }
StructS == StructTypeNode("S", <<"x", "y">>, <<TNumber, TNumber>>)     \* $S::{ x: number; y: number; }
Structs == {StructP, StructQ, StructR, StructS}

\* every order of every subset of a set of statements
RECURSIVE Orderings(_)
Orderings(set) ==
  {<<>>} \cup UNION {{<<first>> \o rest : rest \in Orderings(set \ {first})} : first \in set}

ObjectLiterals == {
  ObjectLiteralNode(<<"x">>, <<LitNum(1)>>),                           \* (x: 1)
  ObjectLiteralNode(<<"x">>, <<LitStr(<<"s">>)>>),                     \* (x: "s")
  ObjectLiteralNode(<<"x", "y">>, <<LitNum(1), LitNum(2)>>),           \* (x: 1, y: 2)
  ObjectLiteralNode(<<"y">>, <<LitNum(1)>>)                            \* (y: 1)
}

\* struct declarations, then  ^^ (literal);
ObjectLiteralInputs ==
  {Append(structs, OutputNode(literal)) : structs \in Orderings(Structs), literal \in ObjectLiterals}

\* --- property access on strings, arrays and structs
TArray(elementType) == <<"array">> \o elementType

\* $T::{ name: string; list: array<number>; n: number; }
\* +s~string;  +r~array<number>;  +t~object<T>;
PropertyPreamble == <<
  StructTypeNode("T", <<"name", "list", "n">>, <<TString, TArray(TNumber), TNumber>>),
  VariableDeclarationNode("s", TString, <<>>),
  VariableDeclarationNode("r", TArray(TNumber), <<>>),
  VariableDeclarationNode("t", TObject("T"), <<>>)>>

\* expressions of type string or array<number>: a variable, or a property-access chain
TextObjects == {Id("s"), Id("r"),
                PropertyAccessNode(Id("t"), "name", FALSE),            \* t->name
                PropertyAccessNode(Id("t"), "list", FALSE)}            \* t->list
PropertyObjects == TextObjects \cup {Id("t"), PropertyAccessNode(Id("t"), "n", FALSE)}
PropertyNames == {"length", "name", "foo"}

PropertyStatements ==
  UNION {{OutputNode(PropertyAccessNode(o, p, FALSE)),                                 \* ^^ o->p;
          VariableDeclarationNode("v", TNumber, <<PropertyAccessNode(o, p, FALSE)>>),  \* +v~number = o->p;
          AssignmentNode(PropertyAccessNode(o, p, TRUE), LitNum(1)),                   \* <-o->p = 1;
          AssignmentNode(PropertyAccessNode(o, p, TRUE), LitStr(<<"s">>))}             \* <-o->p = "s";
         : o \in PropertyObjects, p \in PropertyNames}

PropertyAccessInputs == {Append(PropertyPreamble, stmt) : stmt \in PropertyStatements}

\* --- returns against the declared return type
\* an expression and its type
Typed(node, type) == [node |-> node, type |-> type]
TypedLiterals == {Typed(LitNum(1), TNumber), Typed(LitStr(<<"s">>), TString), Typed(LitBool(TRUE), TBool)}

\* the statements of a function body before its return
BeforeReturn == {
  <<>>,
  <<Output1>>,                                                         \* ^^ 1;
  <<VariableDeclarationNode("b", TNumber, <<LitNum(1)>>)>>,            \* +b~number = 1;
  <<FunctionDeclarationNode("g", <<>>, <<>>, TVoid, <<>>)>>,           \* @g::none -> void | ~
  <<FunctionDeclarationNode("g", <<>>, <<>>, TString,                  \* @g::none -> string | @g <- "s"; ~
      <<ReturnNode(LitStr(<<"s">>))>>)>>
}

\* @f::none -> returnType | before  @f <- returned; ~
ReturnProgram(returnType, before, returned) ==
  <<FunctionDeclarationNode("f", <<>>, <<>>, returnType, Append(before, ReturnNode(returned)))>>

ReturnTypeInputs ==
  {ReturnProgram(declared.type, before, returned.node) :
     declared \in TypedLiterals, before \in BeforeReturn, returned \in TypedLiterals}

\* the returned expression has the declared return type
ConformingReturns ==
  {ReturnProgram(returned.type, before, returned.node) :
     before \in BeforeReturn, returned \in TypedLiterals}

\* --- declarations and uses of one name in nested scopes
\* the statements of a scope program, by tag
ScopeStatement(tag) ==
  CASE tag = "string a" -> VariableDeclarationNode("a", TString, <<LitStr(<<"s">>)>>)   \* +a~string = "s";
    [] tag = "number a" -> VariableDeclarationNode("a", TNumber, <<LitNum(1)>>)         \* +a~number = 1;
    [] tag = "a is string" -> OutputNode(Bin(Id("a"), "==", LitStr(<<"s">>)))           \* ^^ a == "s";
    [] tag = "a is number" -> OutputNode(Bin(Id("a"), "==", LitNum(1)))                 \* ^^ a == 1;

ScopeStatements(tags) == [i \in DOMAIN tags |-> ScopeStatement(tags[i])]

InnerTags == {<<>>, <<"number a">>, <<"a is number">>, <<"a is string">>,
              <<"number a", "a is number">>, <<"number a", "a is string">>,
              <<"a is string", "number a">>, <<"number a", "number a">>}
AfterTags == {<<>>, <<"a is string">>, <<"a is number">>, <<"number a">>}
ScopeKinds == {"same", "branch", "else", "loop", "function", "parameter"}

ScopeCases == [kind : ScopeKinds, inner : InnerTags, after : AfterTags]

\* the statement that holds the inner statements
Nested(kind, inner) ==
  CASE kind = "same" -> inner
    [] kind = "branch" -> <<BranchingNode(LitBool(TRUE), inner, <<>>)>>                 \* ?[yes] | inner ~
    [] kind = "else" -> <<BranchingNode(LitBool(TRUE), <<Output1>>, inner)>>            \* ?[yes] | ^^ 1; ~ : | inner ~
    [] kind = "loop" -> <<LoopNode(LitBool(TRUE), inner)>>                              \* %[yes] | inner ~
    [] kind = "function" ->                                                             \* @f::none -> void | inner ~
         <<FunctionDeclarationNode("f", <<>>, <<>>, TVoid, inner)>>
    [] kind = "parameter" ->                                                            \* @f::<a~bool> -> void | inner ~
         <<FunctionDeclarationNode("f", <<"a">>, <<TBool>>, TVoid, inner)>>

\* +a~string = "s";  then the inner statements in their scope, then the statements after it
ScopeProgram(case) ==
  <<ScopeStatement("string a")>> \o Nested(case.kind, ScopeStatements(case.inner))
                                 \o ScopeStatements(case.after)

ScopeInputs == {ScopeProgram(case) : case \in ScopeCases}

\* --- assignments to a plain name
AssignedValues ==
  TypedLiterals \cup {Typed(Id("a"), TNumber), Typed(Id("s"), TString),
                      Typed(Bin(Id("a"), "+", LitNum(1)), TNumber)}
AssignedNames == {"a", "s", "z", "h"}
AssignmentPlaces == {"same", "branch", "loop", "function"}

AssignmentCases == [name : AssignedNames, value : AssignedValues, place : AssignmentPlaces]

\* +a~number = 1;  +s~string = "s";  ?[yes] | +h~number = 1; ~
AssignmentPreamble == <<
  VariableDeclarationNode("a", TNumber, <<LitNum(1)>>),
  VariableDeclarationNode("s", TString, <<LitStr(<<"s">>)>>),
  BranchingNode(LitBool(TRUE), <<VariableDeclarationNode("h", TNumber, <<LitNum(1)>>)>>, <<>>)>>

\* the preamble, then  <-name = value;  at its place
AssignmentProgram(case) ==
  AssignmentPreamble \o
    Nested(case.place, <<AssignmentNode(Id(case.name), case.value.node)>>)

AssignmentInputs == {AssignmentProgram(case) : case \in AssignmentCases}

\* --- binary expressions over operands of every type
\* $P::{ x: number; }  +p~object<P>;  +r~array<number>;  +n~number;  @g::none -> void | ~
BinaryPreamble == <<
  StructP,
  VariableDeclarationNode("p", TObject("P"), <<>>),
  VariableDeclarationNode("r", TArray(TNumber), <<>>),
  VariableDeclarationNode("n", TNumber, <<>>),
  FunctionDeclarationNode("g", <<>>, <<>>, TVoid, <<>>)>>

Operands ==
  TypedLiterals \cup {Typed(Id("n"), TNumber), Typed(Id("p"), TObject("P")),
                      Typed(Id("r"), TArray(TNumber)),
                      Typed(FunctionCallNode("g", <<>>), TVoid)}            \* <>g::()
ArithmeticOperators == {"+", "-", "*", "/"}
ComparisonOperators == {"==", "!=", "<", ">", "<=", ">="}
LogicalOperators == {"&&", "||"}
Operators == ArithmeticOperators \cup ComparisonOperators \cup LogicalOperators \cup {"."}
ResultTypes == {TNumber, TString, TBool}

BinaryCases == [left : Operands, op : Operators, right : Operands, result : ResultTypes]

\* the preamble, then  +v~result = left op right;
BinaryProgram(case) ==
  Append(BinaryPreamble,
         VariableDeclarationNode("v", case.result,
                                 <<Bin(case.left.node, case.op, case.right.node)>>))

BinaryInputs == {BinaryProgram(case) : case \in BinaryCases}

TypeInputs == FunctionBodyInputs \cup ObjectLiteralInputs \cup PropertyAccessInputs \cup ReturnTypeInputs \cup ScopeInputs \cup AssignmentInputs \cup BinaryInputs

InitTypes ==
  /\ program \in TypeInputs
  /\ analyzer = AnalyzerInit
  /\ outcomes = <<>>
  /\ tokenizer = NotTokenizing
  /\ interp = InterpInit
  /\ status = "running"
  /\ lastStmt = NoNode
  /\ nstmts = 0
  /\ tokens = <<>>
  /\ parsed = NotParsed

SpecTypes == InitTypes /\ [][NextAnalyze]_vars

\* a return anywhere in a list of statements, at any depth
RECURSIVE ContainsReturn(_)
ContainsReturn(statements) ==
  \E i \in 1..Len(statements) :
     \/ statements[i].t = "Return"
     \/ statements[i].t \in {"Branching", "Loop"} /\ ContainsReturn(statements[i].b)
     \/ statements[i].t = "Branching" /\ ContainsReturn(statements[i].c)

\* a return in the top-level list, or in both arms of a top-level
\* branching, or in the body of a top-level loop
StructurallyReturns(body) ==
  \E i \in 1..Len(body) :
     \/ body[i].t = "Return"
     \/ body[i].t = "Branching" /\ ContainsReturn(body[i].b) /\ ContainsReturn(body[i].c)
     \/ body[i].t = "Loop" /\ ContainsReturn(body[i].b)

\* C11: a function with a non-void return type passes analysis only if its
\* body has a return in its top-level list, or a top-level branching with a
\* return in both arms, or a top-level loop with a return in its body; every
\* other non-void function fails with 'Missing return statement in function'.
C11_ReturnRequired ==
  (Analyzed /\ program \in FunctionBodyInputs) =>
     IF StructurallyReturns(program[1].a)
     THEN outcomes[1] = ""
     ELSE outcomes[1] = "Missing return statement in function 'f'."

\* @f::none -> number | ?[yes] | @f <- 1; ~ ~   passes: one arm returns
C11_OneArmReturns ==
  /\ Passed
  /\ program = <<FunctionDeclarationNode("f", <<>>, <<>>, TNumber,
                   <<BranchingNode(LitBool(TRUE), <<Return1>>, <<>>)>>)>>

\* the struct types a program declares that have the field names of a literal
MatchingStructs(statements, literal) ==
  {i \in 1..Len(statements) :
     /\ statements[i].t = "StructType"
     /\ Len(statements[i].names) = Len(literal.names)
     /\ Range(statements[i].names) = Range(literal.names)}

\* C12: an object literal passes analysis only if exactly one registered
\* struct type has its field count and its field names.
C12_ExactlyOneStructMatches ==
  (Passed /\ program \in ObjectLiteralInputs) =>
     Cardinality(MatchingStructs(program, program[Len(program)].a[1])) = 1

\* $P::{ x: number; }  $Q::{ x: number; }  ^^ (x: 1);   passes: P and Q both match
C12_AmbiguousLiteralPasses ==
  /\ Passed
  /\ program = <<StructP, StructQ, OutputNode(ObjectLiteralNode(<<"x">>, <<LitNum(1)>>))>>

\* the property access of the last statement of a property program
LastAccess == program[Len(program)].a[1]

\* C13: a property access on a string or an array whose property is not
\* length is rejected, for a variable and for a property-access chain; length
\* has type number and is rejected as the target of an assignment.
C13_OnlyLengthOnText ==
  (Analyzed /\ program \in PropertyAccessInputs /\ LastAccess.a[1] \in TextObjects) =>
     /\ LastAccess.name # "length" => ~Passed
     /\ (LastAccess.name = "length" /\ LastAccess.flag) => ~Passed
     /\ (LastAccess.name = "length" /\ program[Len(program)].t = "VariableDeclaration") => Passed

\* ^^ t->name->foo;   passes: t->name is a string and foo is not length
C13_ChainPropertyPasses ==
  /\ Passed
  /\ program = Append(PropertyPreamble,
       OutputNode(PropertyAccessNode(PropertyAccessNode(Id("t"), "name", FALSE), "foo", FALSE)))

\* C14: a return statement passes analysis if and only if the type of the
\* returned expression is the declared return type of the function whose
\* body holds it, whatever statements precede it in the body.
C14_ReturnMatchesDeclaredType ==
  (Analyzed /\ program \in ReturnTypeInputs) =>
     (Passed <=> program \in ConformingReturns)

\* @f::none -> number | @g::none -> void | ~  @f <- 1; ~   fails: after the
\* declaration of g the return of f is compared with null
C14_ReturnAfterDeclarationFails ==
  /\ Analyzed
  /\ program = ReturnProgram(TNumber, <<FunctionDeclarationNode("g", <<>>, <<>>, TVoid, <<>>)>>, LitNum(1))
  /\ outcomes[1] = "Return type mismatch: expected 'null', got 'number'."

\* The rule of the specification for one name: a declaration fails when the
\* name is declared in the current scope (local), a use resolves to the
\* declaration of the current scope and else to the enclosing one (outer).
\* None: not declared.  The result is the message of the first failure and
\* the type the name has in the current scope afterwards.
None == <<"none">>
Resolved(local, outer) == IF local # None THEN local ELSE outer

RECURSIVE ScopeRule(_, _, _, _)
ScopeRule(tags, i, local, outer) ==
  IF i > Len(tags) THEN [err |-> "", local |-> local]
  ELSE IF tags[i] \in {"string a", "number a"}
  THEN IF local # None THEN [err |-> "Variable 'a' is already declared.", local |-> local]
       ELSE ScopeRule(tags, i + 1, IF tags[i] = "string a" THEN TString ELSE TNumber, outer)
  ELSE LET used == IF tags[i] = "a is string" THEN TString ELSE TNumber
       IN IF Resolved(local, outer) = used THEN ScopeRule(tags, i + 1, local, outer)
          ELSE [err |-> "Type mismatch in binary expression: left is '"
                          \o TypeText(Resolved(local, outer)) \o "', right is '"
                          \o TypeText(used) \o "'.",
                local |-> local]

\* the outcome the rule gives a scope program
ScopeExpected(case) ==
  IF case.kind = "same"
  THEN ScopeRule(<<"string a">> \o case.inner \o case.after, 1, None, None).err
  ELSE LET inner == ScopeRule(case.inner, 1,
                              IF case.kind = "parameter" THEN TBool ELSE None, TString)
       IN IF inner.err # "" THEN inner.err
          ELSE ScopeRule(case.after, 1, TString, None).err

\* C15: a declaration fails with "Variable '<name>' is already declared."
\* exactly when the name is declared in the current scope (a parameter
\* counts); a name of an enclosing scope may be redeclared in a nested
\* function, branch or loop scope, and after that scope lookups resolve to
\* the outer declaration and its type again.
C15_CurrentScopeOnly ==
  (Analyzed /\ program \in ScopeInputs) =>
    \A case \in ScopeCases : program = ScopeProgram(case) => outcomes[1] = ScopeExpected(case)

\* +a~string = "s";  %[yes] | +a~number = 1; ^^ a == 1; ~  ^^ a == "s";   passes
C15_ShadowedInLoop ==
  /\ Passed
  /\ program = ScopeProgram([kind |-> "loop", inner |-> <<"number a", "a is number">>,
                             after |-> <<"a is string">>])

\* the names visible where the assignment stands, and their declared types
VisibleType(name) == CASE name = "a" -> TNumber [] name = "s" -> TString [] OTHER -> None

\* C16: an assignment to a plain name passes analysis only if the name is
\* visible in the current or an enclosing scope and the value has exactly
\* the declared type; otherwise analysis stops with "Undeclared variable
\* '<name>'" or with a type mismatch naming the expected and the actual type.
C16_AssignmentTyped ==
  (Analyzed /\ program \in AssignmentInputs) =>
    \A case \in AssignmentCases :
       program = AssignmentProgram(case) =>
          outcomes[1] =
            IF VisibleType(case.name) = None
            THEN "Undeclared variable '" \o case.name \o "'."
            ELSE IF case.value.type # VisibleType(case.name)
            THEN "Type mismatch: expected '" \o TypeText(VisibleType(case.name))
                   \o "', got '" \o TypeText(case.value.type)
                   \o "' in assignment to '" \o case.name \o "'."
            ELSE ""

\* ... %[yes] | <-a = "s"; ~   fails: a is a number of the enclosing scope
C16_MismatchInLoop ==
  /\ Analyzed
  /\ program = AssignmentProgram([name |-> "a", value |-> Typed(LitStr(<<"s">>), TString),
                                  place |-> "loop"])
  /\ outcomes[1] = "Type mismatch: expected 'number', got 'string' in assignment to 'a'."

\* the type the specification gives  left op right;  None when it is an error
BinaryRule(op, left, right) ==
  CASE op \in ArithmeticOperators -> IF left = TNumber /\ right = TNumber THEN TNumber ELSE None
    [] op \in ComparisonOperators -> IF left = right THEN TBool ELSE None
    [] op \in LogicalOperators -> IF left = TBool /\ right = TBool THEN TBool ELSE None
    [] op = "." -> IF left \in {TNumber, TString, TBool} /\ right \in {TNumber, TString, TBool}
                   THEN TString ELSE None

\* C17: + - * / take two numbers and give number; == != < > <= >= take two
\* operands of one type and give bool; && || take two bools and give bool;
\* '.' takes any pairing of number, string and bool and gives string; every
\* other combination is an error, and a mismatch of left and right outside
\* concatenation names both types.
C17_BinaryTypes ==
  (Analyzed /\ program \in BinaryInputs) =>
    \A case \in BinaryCases :
       program = BinaryProgram(case) =>
          /\ Passed <=> BinaryRule(case.op, case.left.type, case.right.type) = case.result
          /\ (case.op # "." /\ case.left.type # case.right.type) =>
                outcomes[1] = "Type mismatch in binary expression: left is '"
                                \o TypeText(case.left.type) \o "', right is '"
                                \o TypeText(case.right.type) \o "'."

\* ... +v~bool = p < 1;   fails: left is 'object<P>', right is 'number'
C17_MismatchNamesBoth ==
  /\ Analyzed
  /\ program = BinaryProgram([left |-> Typed(Id("p"), TObject("P")), op |-> "<",
                              right |-> Typed(LitNum(1), TNumber), result |-> TBool])
  /\ outcomes[1] = "Type mismatch in binary expression: left is 'object<P>', right is 'number'."

(***************************************************************************)
(* The Tokenizer.  `code` is the sequence of the source's characters (its  *)
(* UTF-16 code units; the texts below stay within the basic plane, where a *)
(* character is one code unit).  JS positions count from 0, sequences from *)
(* 1: code[position] in the source is code[position + 1] here.  The        *)
(* variable `tokenizer` is the instance during one call of tokenize():     *)
(*   code, position, line, column, tokens   the fields of the class;       *)
(*   status    "running" inside the while loop, "returned" once            *)
(*             `return this.tokens` has run, "thrown" once                 *)
(*             throwErrorWithContext has thrown;                           *)
(*   returned  the value tokenize() returned, if it returned;              *)
(*   error     the TokenizationError thrown, if it threw.                  *)
(* A regex of tokenPatterns is modelled by the length of its match at the  *)
(* start of the remaining code, 0 when it does not match (no pattern       *)
(* matches the empty string).                                              *)
(***************************************************************************)
MaxSource == 4
SnippetRadius == 40

Letters ==
  {"a", "b", "c", "d", "e", "f", "g", "h", "i", "j", "k", "l", "m", "n", "o",
   "p", "q", "r", "s", "t", "u", "v", "w", "x", "y", "z",
   "A", "B", "C", "D", "E", "F", "G", "H", "I", "J", "K", "L", "M", "N", "O",
   "P", "Q", "R", "S", "T", "U", "V", "W", "X", "Y", "Z", "_"}

\* \s, as far as the texts below use it
WhitespaceChars == {" ", "\t", "\n", "\r"}

StartsWith(text, literal) ==
  Len(text) >= Len(literal) /\ SubSeq(text, 1, Len(literal)) = literal

\* the number of characters of `class` in a row from index i on: [class]*
RECURSIVE RunOf(_, _, _)
RunOf(text, i, class) ==
  IF i <= Len(text) /\ text[i] \in class THEN 1 + RunOf(text, i + 1, class) ELSE 0

\* the number of characters other than `stop` in a row from index i on: [^stop]*
RECURSIVE RunUntil(_, _, _)
RunUntil(text, i, stop) ==
  IF i <= Len(text) /\ text[i] # stop THEN 1 + RunUntil(text, i + 1, stop) ELSE 0

\* /^(a|b|...)/ : the first alternative, in the order written, that matches
RECURSIVE MatchAlternatives(_, _)
MatchAlternatives(text, alternatives) ==
  IF alternatives = <<>> THEN 0
  ELSE IF StartsWith(text, Head(alternatives)) THEN Len(Head(alternatives))
  ELSE MatchAlternatives(text, Tail(alternatives))

\* /^[class]/
MatchClass(text, class) == IF text # <<>> /\ text[1] \in class THEN 1 ELSE 0

\* /^\/\/[^\n]*/
MatchSingleLineComment(text) ==
  IF StartsWith(text, <<"/", "/">>) THEN 2 + RunUntil(text, 3, "\n") ELSE 0

\* /^\/\*[\s\S]*?\*\// : lazy, up to the first */ after the opening /*
MatchMultiLineComment(text) ==
  LET closes == {j \in 3..(Len(text) - 1) : text[j] = "*" /\ text[j + 1] = "/"}
  IN IF StartsWith(text, <<"/", "*">>) /\ closes # {}
     THEN (CHOOSE j \in closes : \A k \in closes : j <= k) + 1
     ELSE 0

\* [a-zA-Z_][a-zA-Z0-9_]* from index i on
MatchName(text, i) ==
  IF i <= Len(text) /\ text[i] \in Letters
  THEN 1 + RunOf(text, i + 1, Letters \cup Range(Digits))
  ELSE 0

\* /^\$[a-zA-Z_][a-zA-Z0-9_]*/
MatchStructType(text) ==
  IF text # <<>> /\ text[1] = "$" /\ MatchName(text, 2) > 0
  THEN 1 + MatchName(text, 2) ELSE 0

\* /^[0-9]+(\.[0-9]+)?/
MatchNumber(text) ==
  LET whole == RunOf(text, 1, Range(Digits))
      fraction == RunOf(text, whole + 2, Range(Digits))
  IN IF whole = 0 THEN 0
     ELSE IF whole + 1 <= Len(text) /\ text[whole + 1] = "." /\ fraction > 0
          THEN whole + 1 + fraction
          ELSE whole

\* /^"[^"]*"/
MatchString(text) ==
  LET inside == RunUntil(text, 2, "\"")
  IN IF text # <<>> /\ text[1] = "\"" /\ inside + 2 <= Len(text) THEN inside + 2 ELSE 0

tokenPatterns ==
  <<TokenType.SingleLineComment, TokenType.MultiLineComment, TokenType.Whitespace,
    TokenType.AtSymbol, TokenType.AccessOperator, TokenType.Assignment,
    TokenType.Addition, TokenType.FunctionDeclaration, TokenType.LogicOperator,
    TokenType.Operator, TokenType.Output, TokenType.Branching, TokenType.Equals,
    TokenType.Loop, TokenType.Type, TokenType.None, TokenType.Bool,
    TokenType.StructType, TokenType.Identifier, TokenType.Number,
    TokenType.String, TokenType.Punctuation, TokenType.Colon, TokenType.Dot>>

\* remainingCode.match(pattern.regex): the length of match[0], 0 for null
Match(remainingCode, type) ==
  CASE type = TokenType.SingleLineComment -> MatchSingleLineComment(remainingCode)
    [] type = TokenType.MultiLineComment -> MatchMultiLineComment(remainingCode)
    [] type = TokenType.Whitespace -> RunOf(remainingCode, 1, WhitespaceChars)
    [] type = TokenType.AtSymbol -> MatchAlternatives(remainingCode, << <<"@">> >>)
    [] type = TokenType.AccessOperator -> MatchAlternatives(remainingCode, << <<"-", ">">> >>)
    [] type = TokenType.Assignment -> MatchAlternatives(remainingCode, << <<"<", "-">> >>)
    [] type = TokenType.Addition -> MatchAlternatives(remainingCode, << <<"<", ">">> >>)
    [] type = TokenType.FunctionDeclaration -> MatchAlternatives(remainingCode, << <<":", ":">> >>)
    [] type = TokenType.LogicOperator ->
         MatchAlternatives(remainingCode,
           << <<"=", "=">>, <<"!", "=">>, <<"&", "&">>, <<"|", "|">>,
              <<"<", "=">>, <<">", "=">>, <<"<">>, <<">">> >>)
    [] type = TokenType.Operator -> MatchClass(remainingCode, {"+", "-", "*", "/"})
    [] type = TokenType.Output -> MatchAlternatives(remainingCode, << <<"^", "^">> >>)
    [] type = TokenType.Branching -> MatchAlternatives(remainingCode, << <<"?">> >>)
    [] type = TokenType.Equals -> MatchAlternatives(remainingCode, << <<"=">> >>)
    [] type = TokenType.Loop -> MatchAlternatives(remainingCode, << <<"%">> >>)
    [] type = TokenType.Type ->
         MatchAlternatives(remainingCode,
           << <<"a", "r", "r", "a", "y">>, <<"v", "o", "i", "d">>,
              <<"n", "u", "m", "b", "e", "r">>, <<"b", "o", "o", "l">>,
              <<"s", "t", "r", "i", "n", "g">>, <<"o", "b", "j", "e", "c", "t">> >>)
    [] type = TokenType.None -> MatchAlternatives(remainingCode, << <<"n", "o", "n", "e">> >>)
    [] type = TokenType.Bool ->
         MatchAlternatives(remainingCode, << <<"y", "e", "s">>, <<"n", "o">> >>)
    [] type = TokenType.StructType -> MatchStructType(remainingCode)
    [] type = TokenType.Identifier -> MatchName(remainingCode, 1)
    [] type = TokenType.Number -> MatchNumber(remainingCode)
    [] type = TokenType.String -> MatchString(remainingCode)
    [] type = TokenType.Punctuation ->
         MatchClass(remainingCode, {"(", ")", "{", "}", "[", "]", ",", ";", "|", "~", "&"})
    [] type = TokenType.Colon -> MatchAlternatives(remainingCode, << <<":">> >>)
    [] type = TokenType.Dot -> MatchAlternatives(remainingCode, << <<".">> >>)

\* the line and column after the characters of tokenValue from index i on
RECURSIVE AfterChars(_, _, _, _)
AfterChars(tokenValue, i, line, column) ==
  IF i > Len(tokenValue) THEN [line |-> line, column |-> column]
  ELSE IF tokenValue[i] = "\n" THEN AfterChars(tokenValue, i + 1, line + 1, 1)
  ELSE AfterChars(tokenValue, i + 1, line, column + 1)

\* a mutation: a newline leaves the column where it is
RECURSIVE AfterChars_NoReset(_, _, _, _)
AfterChars_NoReset(tokenValue, i, line, column) ==
  IF i > Len(tokenValue) THEN [line |-> line, column |-> column]
  ELSE IF tokenValue[i] = "\n" THEN AfterChars_NoReset(tokenValue, i + 1, line + 1, column)
  ELSE AfterChars_NoReset(tokenValue, i + 1, line, column + 1)

updatePosition_NoColumnReset(tk, tokenValue) ==
  LET after == AfterChars_NoReset(tokenValue, 1, tk.line, tk.column)
  IN [tk EXCEPT !.line = after.line, !.column = after.column,
                !.position = tk.position + Len(tokenValue)]

updatePosition(tk, tokenValue) ==
  LET after == AfterChars(tokenValue, 1, tk.line, tk.column)
  IN [tk EXCEPT !.line = after.line, !.column = after.column,
                !.position = tk.position + Len(tokenValue)]

\* the pattern that matches the remaining code, 0 when none does
MatchingPattern(tk) ==
  LET remainingCode == SubSeq(tk.code, tk.position + 1, Len(tk.code))
      matching == {i \in 1..Len(tokenPatterns) : Match(remainingCode, tokenPatterns[i]) > 0}
  IN IF matching = {} THEN 0 ELSE CHOOSE i \in matching : \A j \in matching : i <= j

\* a mutation: updatePosition is not called
getNextToken_InPlace(tk, i) ==
  LET remainingCode == SubSeq(tk.code, tk.position + 1, Len(tk.code))
      tokenValue == SubSeq(remainingCode, 1, Match(remainingCode, tokenPatterns[i]))
  IN [token |-> Token(tokenPatterns[i], tokenValue, tk.line, tk.column, tk.position),
      tk |-> tk]

\* getNextToken() when pattern number i is the first to match: the token,
\* and the instance after updatePosition
getNextToken(tk, i) ==
  LET remainingCode == SubSeq(tk.code, tk.position + 1, Len(tk.code))
      tokenValue == SubSeq(remainingCode, 1, Match(remainingCode, tokenPatterns[i]))
  IN [token |-> Token(tokenPatterns[i], tokenValue, tk.line, tk.column, tk.position),
      tk |-> updatePosition(tk, tokenValue)]

Max(a, b) == IF a >= b THEN a ELSE b
Min(a, b) == IF a <= b THEN a ELSE b

Ellipsis == <<".", ".", ".">>

\* new TokenizationError(message, snippet, line, column, unknownToken); the
\* message of the Error is `${message}\nContext:\n${snippet}\nAt line
\* ${line}, column ${column}`, kept here as its parts
TokenizationError(message, snippet, line, column, unknownToken) ==
  [name |-> "TokenizationError", message |-> message, snippet |-> snippet,
   line |-> line, column |-> column, unknownToken |-> unknownToken]

\* a mutation: the snippet runs to the end of the code
Tokenizer_throwErrorWithContext_ToTheEnd(tk, message) ==
  LET snippetStart == Max(0, tk.position - SnippetRadius)
      snippetEnd == Len(tk.code)
      snippetBefore == SubSeq(tk.code, snippetStart + 1, tk.position)
      unknownChar == tk.code[tk.position + 1]
      snippetAfter == SubSeq(tk.code, tk.position + 2, snippetEnd)
      leadingEllipsis == IF snippetStart > 0 THEN Ellipsis ELSE <<>>
      trailingEllipsis == IF snippetEnd < Len(tk.code) THEN Ellipsis ELSE <<>>
      errorSnippet == leadingEllipsis \o snippetBefore \o <<"[", unknownChar, "]">>
                        \o snippetAfter \o trailingEllipsis
  IN TokenizationError(message, errorSnippet, tk.line, tk.column, unknownChar)

\* the error thrown
Tokenizer_throwErrorWithContext(tk, message) ==
  LET snippetStart == Max(0, tk.position - SnippetRadius)
      snippetEnd == Min(Len(tk.code), tk.position + SnippetRadius)
      snippetBefore == SubSeq(tk.code, snippetStart + 1, tk.position)
      unknownChar == tk.code[tk.position + 1]
      snippetAfter == SubSeq(tk.code, tk.position + 2, snippetEnd)
      leadingEllipsis == IF snippetStart > 0 THEN Ellipsis ELSE <<>>
      trailingEllipsis == IF snippetEnd < Len(tk.code) THEN Ellipsis ELSE <<>>
      errorSnippet == leadingEllipsis \o snippetBefore \o <<"[", unknownChar, "]">>
                        \o snippetAfter \o trailingEllipsis
  IN TokenizationError(message, errorSnippet, tk.line, tk.column, unknownChar)

\* new Tokenizer(code), tokenize() entered
NewTokenizer(code) ==
  [code |-> code, position |-> 0, line |-> 1, column |-> 1, tokens |-> <<>>,
   status |-> "running", returned |-> Undefined, error |-> Undefined]

(***************************************************************************)
(* The source texts: every text of at most MaxSource characters over       *)
(* SourceAlphabet, and longer texts chosen to hold every kind of lexeme,   *)
(* comments and strings that span lines, and unmatched characters with     *)
(* more than SnippetRadius characters on either side.                      *)
(***************************************************************************)
SourceAlphabet == {"/", "*", "\n", " ", "a", "1", "\"", "$", "."}

SourcesOfLength(n) == [1..n -> SourceAlphabet]

RECURSIVE Repeat(_, _)
Repeat(text, n) == IF n = 0 THEN <<>> ELSE text \o Repeat(text, n - 1)

\* +a~number = 10.5;
DeclarationSource ==
  <<"+", "a", "~", "n", "u", "m", "b", "e", "r", " ", "=", " ", "1", "0", ".", "5", ";">>

\* a <- $p{x: "s\nt"}; // c
AssignmentSource ==
  <<"a", " ", "<", "-", " ", "$", "p", "{", "x", ":", " ", "\"", "s", "\n", "t", "\"", "}",
    ";", " ", "/", "/", " ", "c">>

\* /* c\n c */ @f :: (x~bool)~void [ ? x == yes | none <> no -> y ]
FunctionSource ==
  <<"/", "*", " ", "c", "\n", " ", "c", " ", "*", "/", " ", "@", "f", " ", ":", ":", " ",
    "(", "x", "~", "b", "o", "o", "l", ")", "~", "v", "o", "i", "d", " ", "[", " ", "?",
    " ", "x", " ", "=", "=", " ", "y", "e", "s", " ", "|", " ", "n", "o", "n", "e", " ",
    "<", ">", " ", "n", "o", " ", "-", ">", " ", "y", " ", "]">>

\* % i <= 3 && j != 2 [\n  ^^ i;\n]
LoopSource ==
  <<"%", " ", "i", " ", "<", "=", " ", "3", " ", "&", "&", " ", "j", " ", "!", "=", " ",
    "2", " ", "[", "\n", " ", " ", "^", "^", " ", "i", ";", "\n", "]">>

\* a;\nb # c
HashSource == <<"a", ";", "\n", "b", " ", "#", " ", "c">>

\* a ! b
BangSource == <<"a", " ", "!", " ", "b">>

\* a "bc
OpenStringSource == <<"a", " ", "\"", "b", "c">>

\* 45 times "a;", a line break, 5 spaces, "$ ", 45 times "b;"
LongSource ==
  Repeat(<<"a", ";">>, 45) \o <<"\n">> \o Repeat(<<" ">>, 5) \o <<"$", " ">>
    \o Repeat(<<"b", ";">>, 45)

\* 30 times "a;", "$1", 10 times "b;"
LongBeforeSource == Repeat(<<"a", ";">>, 30) \o <<"$", "1">> \o Repeat(<<"b", ";">>, 10)

\* "a $", 30 times "b;"
LongAfterSource == <<"a", " ", "$">> \o Repeat(<<"b", ";">>, 30)

\* node
NodeSource == <<"n", "o", "d", "e">>

\* yesterday
YesterdaySource == <<"y", "e", "s", "t", "e", "r", "d", "a", "y">>

\* nonempty
NonemptySource == <<"n", "o", "n", "e", "m", "p", "t", "y">>

\* numberOfItems
NumberOfItemsSource == <<"n", "u", "m", "b", "e", "r", "O", "f", "I", "t", "e", "m", "s">>

\* _node
UnderscoreSource == <<"_", "n", "o", "d", "e">>

\* +total~number;
TotalSource == <<"+", "t", "o", "t", "a", "l", "~", "n", "u", "m", "b", "e", "r", ";">>

WordSources ==
  {NodeSource, YesterdaySource, NonemptySource, NumberOfItemsSource, UnderscoreSource,
   TotalSource}

SampleSources ==
  {DeclarationSource, AssignmentSource, FunctionSource, LoopSource, HashSource,
   BangSource, OpenStringSource, LongSource, LongBeforeSource, LongAfterSource}
  \cup WordSources

SourceInputs == UNION {SourcesOfLength(n) : n \in 0..MaxSource} \cup SampleSources

InitTokenize ==
  /\ tokenizer \in {NewTokenizer(code) : code \in SourceInputs}
  /\ interp = InterpInit
  /\ analyzer = AnalyzerInit
  /\ status = "running"
  /\ lastStmt = 0
  /\ nstmts = 0
  /\ tokens = <<>>
  /\ parsed = NotParsed
  /\ program = <<>>
  /\ outcomes = <<>>

\* one iteration of the while loop of tokenize() in which getNextToken()
\* returns a token
TokenizeToken ==
  /\ tokenizer.status = "running"
  /\ tokenizer.position < Len(tokenizer.code)
  /\ \E i \in {MatchingPattern(tokenizer)} :
       /\ i > 0
       /\ \E next \in {getNextToken(tokenizer, i)} :
            tokenizer' =
              IF next.token.type \notin {TokenType.Whitespace, TokenType.SingleLineComment,
                                         TokenType.MultiLineComment}
              THEN [next.tk EXCEPT !.tokens = Append(next.tk.tokens, next.token)]
              ELSE next.tk
  /\ UNCHANGED <<interp, analyzer, status, lastStmt, nstmts, tokens, parsed, program, outcomes>>

\* the iteration in which getNextToken() returns null
TokenizeThrow ==
  /\ tokenizer.status = "running"
  /\ tokenizer.position < Len(tokenizer.code)
  /\ MatchingPattern(tokenizer) = 0
  /\ tokenizer' =
       [tokenizer EXCEPT
          !.status = "thrown",
          !.error = Tokenizer_throwErrorWithContext(tokenizer,
                      <<"Unexpected token at line ", NumToChars(tokenizer.line),
                        ", column ", NumToChars(tokenizer.column)>>)]
  /\ UNCHANGED <<interp, analyzer, status, lastStmt, nstmts, tokens, parsed, program, outcomes>>

\* the loop condition is false: return this.tokens
TokenizeReturn ==
  /\ tokenizer.status = "running"
  /\ tokenizer.position >= Len(tokenizer.code)
  /\ tokenizer' = [tokenizer EXCEPT !.status = "returned", !.returned = tokenizer.tokens]
  /\ UNCHANGED <<interp, analyzer, status, lastStmt, nstmts, tokens, parsed, program, outcomes>>

NextTokenize == TokenizeToken \/ TokenizeThrow \/ TokenizeReturn

SpecTokenize == InitTokenize /\ [][NextTokenize]_vars

(***************************************************************************)
(* The line and column of a position, counted on the text itself: the line *)
(* is 1 plus the number of newlines before the position, the column is 1   *)
(* plus the number of characters between the last of them and the          *)
(* position.                                                               *)
(***************************************************************************)
NewlinesBefore(code, position) == {i \in 1..position : code[i] = "\n"}

LineOf(code, position) == 1 + Cardinality(NewlinesBefore(code, position))

ColumnOf(code, position) ==
  LET newlines == NewlinesBefore(code, position)
      lineStart == IF newlines = {} THEN 0
                   ELSE CHOOSE i \in newlines : \A j \in newlines : j <= i
  IN position - lineStart + 1

Discarded == {TokenType.Whitespace, TokenType.SingleLineComment, TokenType.MultiLineComment}

\* C18: the tokens tokenize() returns are in strictly increasing position
\* order, their spans [position, position + length of value) do not
\* overlap, each value is the source text of its span, each line and column
\* are the 1-based line and column of the token's position, and none of
\* them is whitespace, a line comment or a block comment.
C18_TokensFaithful ==
  tokenizer.status = "returned" =>
    LET code == tokenizer.code
        ts == tokenizer.returned
    IN /\ \A i \in 1..Len(ts) : \A j \in 1..Len(ts) :
            i < j => /\ ts[i].position < ts[j].position
                     /\ ts[i].position + Len(ts[i].value) <= ts[j].position
       /\ \A i \in 1..Len(ts) :
            /\ ts[i].position >= 0
            /\ ts[i].position + Len(ts[i].value) <= Len(code)
            /\ ts[i].value = SubSeq(code, ts[i].position + 1, ts[i].position + Len(ts[i].value))
            /\ ts[i].line = LineOf(code, ts[i].position)
            /\ ts[i].column = ColumnOf(code, ts[i].position)
            /\ ts[i].type \notin Discarded

\* a text with a string that spans two lines and a line comment has been
\* tokenized: the token after the string is on the next line, past column 1
C18_TokenAfterStringOverLines ==
  /\ tokenizer.status = "returned"
  /\ \E i \in 1..(Len(tokenizer.returned) - 1) :
       /\ tokenizer.returned[i].type = TokenType.String
       /\ "\n" \in Range(tokenizer.returned[i].value)
       /\ tokenizer.returned[i + 1].line = tokenizer.returned[i].line + 1
       /\ tokenizer.returned[i + 1].column > 1
  /\ \E k \in 1..(Len(tokenizer.code) - 1) :
       tokenizer.code[k] = "/" /\ tokenizer.code[k + 1] = "/"

\* C19: tokenize() throws a TokenizationError at the first position it
\* reaches where no token pattern matches: it returns no token list, every
\* token read so far ends at or before that position, the error's line,
\* column and character are those of the position, and the snippet is the
\* character in brackets with at most SnippetRadius characters of the
\* source on each side, an ellipsis allowed at either end.
C19_ErrorAtUnmatchedPosition ==
  tokenizer.status = "thrown" =>
    LET code == tokenizer.code
        position == tokenizer.position
        error == tokenizer.error
    IN /\ position < Len(code)
       /\ \A i \in 1..Len(tokenPatterns) :
            Match(SubSeq(code, position + 1, Len(code)), tokenPatterns[i]) = 0
       /\ \A i \in 1..Len(tokenizer.tokens) :
            tokenizer.tokens[i].position + Len(tokenizer.tokens[i].value) <= position
       /\ tokenizer.returned = Undefined
       /\ error.name = "TokenizationError"
       /\ error.line = LineOf(code, position)
       /\ error.column = ColumnOf(code, position)
       /\ error.unknownToken = code[position + 1]
       /\ \E before \in 0..Min(SnippetRadius, position) :
            \E after \in 0..Min(SnippetRadius, Len(code) - position - 1) :
              \E leading \in {<<>>, Ellipsis} : \E trailing \in {<<>>, Ellipsis} :
                error.snippet =
                  leading \o SubSeq(code, position - before + 1, position)
                    \o <<"[", code[position + 1], "]">>
                    \o SubSeq(code, position + 2, position + 1 + after) \o trailing

\* tokenize() has thrown at a '$' followed by a space on the second line of
\* a text, with more than SnippetRadius characters on either side of it
C19_DollarDeepInLongText ==
  /\ tokenizer.status = "thrown"
  /\ tokenizer.error.unknownToken = "$"
  /\ tokenizer.error.line = 2
  /\ tokenizer.position > SnippetRadius
  /\ Len(tokenizer.code) - tokenizer.position - 1 > SnippetRadius
  /\ tokenizer.code[tokenizer.position + 2] = " "
  /\ tokenizer.tokens # <<>>

(***************************************************************************)
(* Loops (Spec).                                                           *)
(***************************************************************************)
\* the evaluations of the condition of the top-level loop, and the starts of
\* its body, during the last step
ConditionsOfLoop == {i \in EventsOf("condition") : Trace[i].depth = 0}
IterationsOfLoop == {i \in EventsOf("iteration") : Trace[i].depth = 0}

\* C20: a loop evaluates its condition before every iteration: a body starts
\* only right after its condition evaluated to true, and starts after every
\* such evaluation; so the body has run k times when the condition was true
\* k times and then false.  The run goes on after a top-level loop only
\* when the last thing the loop did was to evaluate its condition to false,
\* and a loop whose condition is true at every evaluation has not finished.
C20_ConditionBeforeEveryIteration ==
  /\ \A i \in EventsOf("iteration") :
       /\ i > 1
       /\ Trace[i - 1].e = "condition"
       /\ Trace[i - 1].depth = Trace[i].depth
       /\ Truthy(Trace[i - 1].val)
  /\ \A j \in EventsOf("condition") :
       Truthy(Trace[j].val) =>
         \/ j < Len(Trace) /\ Trace[j + 1].e = "iteration" /\ Trace[j + 1].depth = Trace[j].depth
         \/ j = Len(Trace) /\ status = "hung"
  /\ (nstmts > 0 /\ lastStmt.t = "Loop" /\ status = "running") =>
       /\ Trace[Len(Trace)].e = "condition"
       /\ Trace[Len(Trace)].depth = 0
       /\ ~Truthy(Trace[Len(Trace)].val)
       /\ Cardinality(IterationsOfLoop) = Cardinality(ConditionsOfLoop) - 1
       /\ \A j \in ConditionsOfLoop : j < Len(Trace) => Truthy(Trace[j].val)
  /\ (nstmts > 0 /\ lastStmt.t = "Loop" /\ \A j \in ConditionsOfLoop : Truthy(Trace[j].val)) =>
       status # "running"

\* %[a < 3] with a = 1 has run: the condition was evaluated three times,
\* true, true, false, the body ran twice, and the run goes on
C20_TwoIterations ==
  /\ nstmts > 0
  /\ lastStmt = LoopCounting
  /\ status = "running"
  /\ Cardinality(ConditionsOfLoop) = 3
  /\ Cardinality(IterationsOfLoop) = 2
  /\ interp.variables["a"] = Num(3)

(***************************************************************************)
(* OML.exec on a whole program (index.ts): the SemanticAnalyzer visits the *)
(* ProgramNode, and when it has thrown nothing a new OMLInterpreter visits *)
(* it, one top-level statement per step.  `status` is "rejected" when the   *)
(* analyzer threw.  The programs are built case by case as the Parser      *)
(* builds them: a negative number is the unary minus of a literal.         *)
(***************************************************************************)
Minus(n) == UnaryExpressionNode("-", LitNum(n))
Number(n) == IF n < 0 THEN Minus(0 - n) ELSE LitNum(n)

\* the index num / den: an integer (den = 1), 1/2, 0/0 or 1/0
IndexValues ==
  {[num |-> n, den |-> 1] : n \in (0 - 1)..4}
    \cup {[num |-> 1, den |-> 2], [num |-> 0, den |-> 0], [num |-> 1, den |-> 0]}
IndexNode(index) ==
  IF index.den = 1 THEN Number(index.num)
  ELSE Bin(LitNum(index.num), "/", LitNum(index.den))

IndexedTexts == {<<>>, <<"a", "b", "c">>}
IndexCases == [text : IndexedTexts, index : IndexValues, write : BOOLEAN]

\* +s~string = "abc";  ^^ s->(i);  or  s->(i) = "z";  and then  ^^ s;
IndexProgram(case) ==
  <<VariableDeclarationNode("s", TString, <<LitStr(case.text)>>),
    IF case.write
    THEN IndexAssignmentNode(Id("s"), IndexNode(case.index), LitStr(<<"z">>))
    ELSE OutputNode(IndexAccessNode(Id("s"), IndexNode(case.index))),
    OutputNode(Id("s"))>>
IndexInputs == {IndexProgram(case) : case \in IndexCases}

\* +t~string = string(e);  ^^ t;
StringLengths == {0 - 5, 0, 1, 3}
StringCopies == {<<>>, <<"a", "b">>}
StringArguments == {Number(n) : n \in StringLengths} \cup {LitStr(s) : s \in StringCopies}
StringProgram(argument) ==
  <<VariableDeclarationNode("t", TString, <<TypeConstructionNode(TString, <<argument>>)>>),
    OutputNode(Id("t"))>>
StringInputs == {StringProgram(argument) : argument \in StringArguments}

\* +x~T;  ^^ x;
ZeroTypes == {TNumber, TString, TBool}
ZeroProgram(type) ==
  <<VariableDeclarationNode("x", type, <<>>), OutputNode(Id("x"))>>
ZeroInputs == {ZeroProgram(type) : type \in ZeroTypes}

\* +q~number = l / r;  ^^ q;
Dividends == {0 - 6, 0, 6, 7}
Divisors == {0, 2, 3}
DivisionCases == [left : Dividends, right : Divisors]
DivisionProgram(case) ==
  <<VariableDeclarationNode("q", TNumber,
      <<Bin(Number(case.left), "/", LitNum(case.right))>>),
    OutputNode(Id("q"))>>
DivisionInputs == {DivisionProgram(case) : case \in DivisionCases}

\* +arr~array<number> = array<number>(3); +sum~number = 0; +i~number = 0;
\* <-sum = sum + arr->(i);
SumOverArray ==
  <<VariableDeclarationNode("arr", <<"array", "number">>,
      <<TypeConstructionNode(<<"array", "number">>, <<LitNum(3)>>)>>),
    VariableDeclarationNode("sum", TNumber, <<LitNum(0)>>),
    VariableDeclarationNode("i", TNumber, <<LitNum(0)>>),
    AssignmentNode(Id("sum"), Bin(Id("sum"), "+", IndexAccessNode(Id("arr"), Id("i"))))>>

\* +s~string = "abc"; +c~string = s->(0);
CharOfString ==
  <<VariableDeclarationNode("s", TString, <<LitStr(<<"a", "b", "c">>)>>),
    VariableDeclarationNode("c", TString, <<IndexAccessNode(Id("s"), LitNum(0))>>)>>

\* +s~string = "abc"; ^^ s->(0) . "!";
CharConcatenated ==
  <<VariableDeclarationNode("s", TString, <<LitStr(<<"a", "b", "c">>)>>),
    OutputNode(Bin(IndexAccessNode(Id("s"), LitNum(0)), ".", LitStr(<<"!">>)))>>

\* +s~string = "abc"; ^^ s->(0);
CharOutput ==
  <<VariableDeclarationNode("s", TString, <<LitStr(<<"a", "b", "c">>)>>),
    OutputNode(IndexAccessNode(Id("s"), LitNum(0)))>>

IndexTypeInputs == {SumOverArray, CharOfString, CharConcatenated}

\* +a~number = 1; +b~number = 2;
\* @f::<p~number, q~number> -> number | @f <- p or q; ~
\* ^^ <>f::(e1, e2);
CallArguments == {Id("a"), Id("b"), LitNum(5), Bin(Id("a"), "+", Id("b"))}
ParameterNames == {<<"a", "b">>, <<"b", "a">>, <<"x", "y">>}
CallCases ==
  [names : ParameterNames, first : CallArguments, second : CallArguments, returned : {1, 2}]
CallProgram(case) ==
  <<VariableDeclarationNode("a", TNumber, <<LitNum(1)>>),
    VariableDeclarationNode("b", TNumber, <<LitNum(2)>>),
    FunctionDeclarationNode("f", case.names, <<TNumber, TNumber>>, TNumber,
      <<ReturnNode(Id(case.names[case.returned]))>>),
    OutputNode(FunctionCallNode("f", <<case.first, case.second>>))>>
CallInputs == {CallProgram(case) : case \in CallCases}

ExecInputs ==
  IndexInputs \cup StringInputs \cup ZeroInputs \cup DivisionInputs \cup IndexTypeInputs
    \cup {CharOutput} \cup CallInputs

InitExec ==
  /\ program \in ExecInputs
  /\ interp = InterpInit
  /\ analyzer = AnalyzerInit
  /\ status = "running"
  /\ lastStmt = NoNode
  /\ nstmts = 0
  /\ tokens = <<>>
  /\ parsed = NotParsed
  /\ outcomes = <<>>
  /\ tokenizer = NotTokenizing

\* const semanticAnalyzer = new SemanticAnalyzer(); ast.accept(semanticAnalyzer)
ExecAnalyze ==
  /\ outcomes = <<>>
  /\ \E r \in {SA_visitStatements(program, 1, analyzer)} :
       /\ analyzer' = r.az
       /\ outcomes' = <<r.err>>
       /\ status' = IF r.err = "" THEN "running" ELSE "rejected"
  /\ UNCHANGED <<program, interp, lastStmt, nstmts, tokens, parsed, tokenizer>>

\* ast.accept(interpreter): one iteration of the loop of visitProgramNode
ExecStatement ==
  /\ outcomes # <<>>
  /\ status = "running"
  /\ nstmts < Len(program)
  /\ \E stmt \in {program[nstmts + 1]} :
       \E r \in {visit(stmt, Log([interp EXCEPT !.trace = <<>>],
                             Event("stmt", stmt.t, 0, Undefined, EmptyMap)))} :
          /\ interp' = [r.st EXCEPT !.depth = 0]
          /\ status' = CASE r.ctl = "normal" -> "running"
                         [] r.ctl = "throw" -> "failed"
                         [] r.ctl = "hang" -> "hung"
          /\ lastStmt' = stmt
          /\ nstmts' = nstmts + 1
  /\ UNCHANGED <<program, analyzer, outcomes, tokens, parsed, tokenizer>>

NextExec == ExecAnalyze \/ ExecStatement

SpecExec == InitExec /\ [][NextExec]_vars

(***************************************************************************)
(* Properties of whole runs (SpecExec).                                    *)
(***************************************************************************)
\* the run is over: rejected, failed, or every statement executed
Finished ==
  /\ outcomes # <<>>
  /\ status # "running" \/ nstmts = Len(program)

Completed == Finished /\ status = "running"

\* the message of the Error that ended the run
Failure ==
  IF status = "rejected" THEN outcomes[1]
  ELSE IF status = "failed" /\ Trace[Len(Trace)].val.k = "error"
  THEN interp.heap[Trace[Len(Trace)].val.n]["message"].s[1]
  ELSE ""

\* getOutput(): this.output.join('\n'); join writes null and undefined as
\* the empty string
RECURSIVE JoinLines(_, _)
JoinLines(values, heap) ==
  LET text(v) == IF v.k \in {"null", "undefined"} THEN <<>> ELSE JSToString(v, heap)
  IN IF values = <<>> THEN <<>>
     ELSE IF Len(values) = 1 THEN text(values[1])
     ELSE text(values[1]) \o <<"\n">> \o JoinLines(Tail(values), heap)

getOutput(st) == JoinLines(st.output, st.heap)

\* 0 <= i < n for the index i = num / den
InRange(index, n) == index.den > 0 /\ 0 <= index.num /\ index.num < n * index.den

\* C21: on a string of length n the index read s->(i) and the index write
\* s->(i) = c succeed exactly when 0 <= i < n; with any other index the run
\* fails with 'Index out of bounds', and after a failed write the variable is
\* still bound to the string it had.
C21_IndexWithinLength ==
  (Finished /\ program \in IndexInputs) =>
    \A case \in IndexCases : program = IndexProgram(case) =>
      IF InRange(case.index, Len(case.text))
      THEN Completed
      ELSE /\ status = "failed"
           /\ nstmts = 2
           /\ Failure = "Index out of bounds"
           /\ interp.variables["s"] = Str(case.text)

\* +s~string = "abc"; ^^ s->(0 / 0); ^^ s; has run to its end: the read at
\* the index NaN raised nothing and gave undefined
C21_NaNIndexAccepted ==
  /\ program = IndexProgram([text |-> <<"a", "b", "c">>, index |-> [num |-> 0, den |-> 0],
                             write |-> FALSE])
  /\ Completed
  /\ interp.output = <<Undefined, Str(<<"a", "b", "c">>)>>

\* C22: string(e) with a number n >= 1 is the string of n spaces, with a
\* number n < 1 the run fails with 'String length must be greater than 0',
\* and with a string it is a copy of that string.
C22_StringConstruction ==
  (Finished /\ program \in StringInputs) =>
    /\ \A n \in StringLengths : program = StringProgram(Number(n)) =>
         IF n >= 1
         THEN Completed /\ interp.output = <<Str([i \in 1..n |-> " "])>>
         ELSE status = "failed" /\ Failure = "String length must be greater than 0"
    /\ \A s \in StringCopies : program = StringProgram(LitStr(s)) =>
         Completed /\ interp.output = <<Str(s)>>

\* +t~string = string(3); passed analysis and failed in the interpreter on
\* node.value, which the node does not have
C22_ConstructionReadsUndefined ==
  /\ program = StringProgram(LitNum(3))
  /\ status = "failed"
  /\ nstmts = 1
  /\ Failure = "TypeError: Cannot read properties of undefined (reading 'accept')"

ZeroValue(type) ==
  CASE type = TNumber -> Num(0)
    [] type = TString -> Str(<<>>)
    [] type = TBool -> Bool(FALSE)

\* C23: a variable declared without an initializer is bound to the zero
\* value of its declared type (0, the empty string, false), and outputting it
\* before any assignment writes that zero value.
C23_ZeroValue ==
  (Finished /\ program \in ZeroInputs) =>
    \A type \in ZeroTypes : program = ZeroProgram(type) =>
      /\ Completed
      /\ interp.variables["x"] = ZeroValue(type)
      /\ interp.output = <<ZeroValue(type)>>
      /\ getOutput(interp) = JSToString(ZeroValue(type), interp.heap)

\* +x~number; ^^ x; has run: x is bound to null, null is what was output,
\* and the text of the output is empty
C23_DeclaredNumberIsNull ==
  /\ program = ZeroProgram(TNumber)
  /\ Completed
  /\ interp.variables["x"] = Null
  /\ interp.output = <<Null>>
  /\ getOutput(interp) = <<>>

\* C24: dividing a number by zero raises an error that aborts the run: the
\* run has failed and nothing was output.
C24_DivisionByZeroFaults ==
  (Finished /\ program \in DivisionInputs) =>
    \A case \in DivisionCases : (program = DivisionProgram(case) /\ case.right = 0) =>
      status = "failed" /\ interp.output = <<>>

\* +q~number = 6 / 0; ^^ q; has run to its end and has output Infinity
C24_InfinityProduced ==
  /\ program = DivisionProgram([left |-> 6, right |-> 0])
  /\ Completed
  /\ interp.output = <<Infinity>>
  /\ getOutput(interp) = <<"I", "n", "f", "i", "n", "i", "t", "y">>

\* C25: an index access on a string has type string and on an array<T> has
\* type T, so the programs that use one as an operand, as an initializer or
\* in a concatenation pass analysis.
C25_IndexAccessTyped ==
  (Finished /\ program \in IndexTypeInputs) => outcomes[1] = ""

\* <-sum = sum + arr->(i); with arr of type array<number> is rejected: the
\* index access has no type
C25_SumRejected ==
  /\ program = SumOverArray
  /\ status = "rejected"
  /\ outcomes[1] = "Type mismatch in binary expression: left is 'number', right is 'undefined'."

\* the value of an argument expression in the caller's bindings a = 1, b = 2
ArgumentValue(argument) ==
  CASE argument = Id("a") -> Num(1)
    [] argument = Id("b") -> Num(2)
    [] argument = LitNum(5) -> Num(5)
    [] argument = Bin(Id("a"), "+", Id("b")) -> Num(3)

\* C26: every argument of a call is evaluated against the caller's bindings
\* as they were when the call started: the function that returns its first or
\* second parameter returns the value the argument has in the caller, also
\* when a parameter has the name of a caller variable.
C26_ArgumentsReadCallerBindings ==
  (Finished /\ program \in CallInputs) =>
    \A case \in CallCases : program = CallProgram(case) =>
      /\ Completed
      /\ interp.output =
           <<ArgumentValue(IF case.returned = 1 THEN case.first ELSE case.second)>>

\* ^^ <>f::(b, a); with f::<a, b> returning b has output 2: the second
\* argument a was read after the parameter a was bound to the caller's b
C26_SecondArgumentReadsParameter ==
  /\ program = CallProgram([names |-> <<"a", "b">>, first |-> Id("b"), second |-> Id("a"),
                            returned |-> 2])
  /\ Completed
  /\ interp.output = <<Num(2)>>

\* ^^ a o1 b o2 c ;  and  ^^ a o1 b o2 c o3 d ;
TwoOperators(o1, o2) == Layout(<<LOut, LId("a"), o1, LId("b"), o2, LId("c"), LSemi>>)
ThreeOperators(o1, o2, o3) ==
  Layout(<<LOut, LId("a"), o1, LId("b"), o2, LId("c"), o3, LId("d"), LSemi>>)

Operand(c) == IdentifierNode(<<c>>)
SamePrecedence(o1, o2) == getOperatorPrecedence(o1.value) = getOperatorPrecedence(o2.value)

\* C28: binary operators of equal precedence group left to right, also with
\* an operator of higher precedence between them: a o1 b o2 c is
\* (a o1 b) o2 c, and a o1 b o2 c o3 d with o2 above o1 and o3 is
\* (a o1 (b o2 c)) o3 d.
C28_LeftToRight ==
  Accepted =>
    /\ \A o1, o2 \in BinaryOperatorLexemes :
         (SamePrecedence(o1, o2) /\ tokens = TwoOperators(o1, o2)) =>
           parsed.statements =
             <<OutputNode(BinaryExpressionNode(
                 BinaryExpressionNode(Operand("a"), o1.value, Operand("b")),
                 o2.value, Operand("c")))>>
    /\ \A o1, o2, o3 \in BinaryOperatorLexemes :
         (/\ SamePrecedence(o1, o3)
          /\ getOperatorPrecedence(o2.value) > getOperatorPrecedence(o1.value)
          /\ tokens = ThreeOperators(o1, o2, o3)) =>
           parsed.statements =
             <<OutputNode(BinaryExpressionNode(
                 BinaryExpressionNode(Operand("a"), o1.value,
                   BinaryExpressionNode(Operand("b"), o2.value, Operand("c"))),
                 o3.value, Operand("d")))>>

\* ^^ a - b * c - d ;  parses to  a - ((b * c) - d): the second - is inside
\* the right operand of the first
C28_SecondMinusInside ==
  /\ Accepted
  /\ tokens = ThreeOperators(LOp("-"), LOp("*"), LOp("-"))
  /\ parsed.statements =
       <<OutputNode(BinaryExpressionNode(
           Operand("a"), <<"-">>,
           BinaryExpressionNode(
             BinaryExpressionNode(Operand("b"), <<"*">>, Operand("c")),
             <<"-">>, Operand("d"))))>>

WordChars == Letters \cup Range(Digits)

Keywords ==
  {<<"a", "r", "r", "a", "y">>, <<"v", "o", "i", "d">>, <<"n", "u", "m", "b", "e", "r">>,
   <<"b", "o", "o", "l">>, <<"s", "t", "r", "i", "n", "g">>,
   <<"o", "b", "j", "e", "c", "t">>, <<"n", "o", "n", "e">>, <<"y", "e", "s">>, <<"n", "o">>}

\* code[i..j] is a maximal run of letters, digits and underscores that
\* starts with a letter or an underscore and does not follow a $
MaximalWord(code, i, j) ==
  /\ 1 <= i /\ i <= j /\ j <= Len(code)
  /\ code[i] \in Letters
  /\ \A k \in i..j : code[k] \in WordChars
  /\ i = 1 \/ code[i - 1] \notin WordChars \cup {"$"}
  /\ j = Len(code) \/ code[j + 1] \notin WordChars

\* the text has no string and no comment
PlainText(code) == \A k \in DOMAIN code : code[k] \notin {"\"", "/"}

\* C29: every maximal run of letters, digits and underscores that starts
\* with a letter or an underscore and is not exactly a keyword is one
\* Identifier token, also when it begins with the letters of a keyword
\* (node, yesterday, nonempty, numberOfItems).
C29_WordsAreIdentifiers ==
  (tokenizer.status = "returned" /\ PlainText(tokenizer.code)) =>
    \A i \in DOMAIN tokenizer.code : \A j \in i..Len(tokenizer.code) :
      (MaximalWord(tokenizer.code, i, j) /\ SubSeq(tokenizer.code, i, j) \notin Keywords) =>
        \E k \in DOMAIN tokenizer.returned :
          /\ tokenizer.returned[k].type = TokenType.Identifier
          /\ tokenizer.returned[k].value = SubSeq(tokenizer.code, i, j)
          /\ tokenizer.returned[k].position = i - 1

\* node has been tokenized to the Bool no and the Identifier de
C29_NodeSplit ==
  /\ tokenizer.status = "returned"
  /\ tokenizer.code = NodeSource
  /\ tokenizer.returned =
       <<Token(TokenType.Bool, <<"n", "o">>, 1, 1, 0),
         Token(TokenType.Identifier, <<"d", "e">>, 1, 3, 2)>>

(***************************************************************************)
(* The front end of OML.exec() (index.ts):                                 *)
(*   const tokens = new Tokenizer(this.code).tokenize();                   *)
(*   const ast = new Parser(this.code, tokens).parse();                    *)
(* on the texts  ^^ <op><operand>;  for the unary operators - and ! and    *)
(* operands of every primary form.                                         *)
(***************************************************************************)
UnaryOperators == {"-", "!"}

\* the operand texts with the node the parser builds for them
SimpleOperands ==
  {[text |-> <<"a">>, node |-> IdentifierNode(<<"a">>)],
   [text |-> <<"_", "x", "1">>, node |-> IdentifierNode(<<"_", "x", "1">>)],
   [text |-> <<"1">>, node |-> LiteralNode(Num(1))],
   [text |-> <<"4", "2">>, node |-> LiteralNode(Num(42))],
   [text |-> <<"\"", "s", "\"">>, node |-> LiteralNode(Str(<<"s">>))],
   [text |-> <<"\"", "\"">>, node |-> LiteralNode(Str(<<>>))],
   [text |-> <<"y", "e", "s">>, node |-> LiteralNode(Bool(TRUE))],
   [text |-> <<"n", "o">>, node |-> LiteralNode(Bool(FALSE))]}

\* (a): the parser returns the node of a, with no node for the parentheses
ParenthesisedOperands == {<<"(", "a", ")">>, <<"(", "1", ")">>}

\* (a + b)   -a   <>f::()   a->b   a->(0)   string(3)
OtherOperands ==
  {<<"(", "a", " ", "+", " ", "b", ")">>,
   <<"-", "a">>,
   <<"<", ">", "f", ":", ":", "(", ")">>,
   <<"a", "-", ">", "b">>,
   <<"a", "-", ">", "(", "0", ")">>,
   <<"s", "t", "r", "i", "n", "g", "(", "3", ")">>}

\* ^^ <op><operand>;
UnarySource(op, operand) == <<"^", "^", " ", op>> \o operand \o <<";">>

UnaryInputs ==
  {UnarySource(op, operand.text) : op \in UnaryOperators, operand \in SimpleOperands}
  \cup {UnarySource(op, operand) : op \in UnaryOperators,
                                    operand \in OtherOperands \cup ParenthesisedOperands}

InitFrontEnd ==
  /\ tokenizer \in {NewTokenizer(code) : code \in UnaryInputs}
  /\ tokens = <<>>
  /\ parsed = NotParsed
  /\ interp = InterpInit
  /\ analyzer = AnalyzerInit
  /\ status = "running"
  /\ lastStmt = NoNode
  /\ nstmts = 0
  /\ program = <<>>
  /\ outcomes = <<>>

\* const tokens = tokenizer.tokenize(): the loop condition is false and
\* tokenize returns this.tokens
FrontEndTokens ==
  /\ tokenizer.status = "running"
  /\ tokenizer.position >= Len(tokenizer.code)
  /\ tokenizer' = [tokenizer EXCEPT !.status = "returned", !.returned = tokenizer.tokens]
  /\ tokens' = tokenizer.tokens
  /\ UNCHANGED <<interp, analyzer, status, lastStmt, nstmts, parsed, program, outcomes>>

\* const ast = new Parser(this.code, tokens).parse()
FrontEndParse ==
  /\ tokenizer.status = "returned"
  /\ ~parsed.run
  /\ parsed' = parse
  /\ UNCHANGED <<interp, analyzer, status, lastStmt, nstmts, tokens, program, outcomes,
                 tokenizer>>

NextFrontEnd == TokenizeToken \/ TokenizeThrow \/ FrontEndTokens \/ FrontEndParse

SpecFrontEnd == InitFrontEnd /\ [][NextFrontEnd]_vars

\* the front end has accepted the text / has thrown
FrontEndAccepted == parsed.run /\ parsed.err.kind = "none"
FrontEndRejected == tokenizer.status = "thrown" \/ (parsed.run /\ parsed.err.kind # "none")

\* C27: a unary - or ! before a literal or an identifier is accepted and
\* parses to a UnaryExpression of the operator and the operand; before any
\* other operand form the program is rejected.
C27_UnaryOperand ==
  (FrontEndAccepted \/ FrontEndRejected) =>
    /\ \A op \in UnaryOperators : \A operand \in SimpleOperands :
         tokenizer.code = UnarySource(op, operand.text) =>
           /\ FrontEndAccepted
           /\ parsed.statements = <<OutputNode(UnaryExpressionNode(<<op>>, operand.node))>>
    /\ \A op \in UnaryOperators : \A operand \in OtherOperands :
         tokenizer.code = UnarySource(op, operand) => FrontEndRejected

\* ^^ !a;  is rejected by the tokenizer at the character !
C27_BangUnmatched ==
  /\ tokenizer.code = UnarySource("!", <<"a">>)
  /\ tokenizer.status = "thrown"
  /\ tokenizer.position = 3
  /\ tokenizer.error.unknownToken = "!"
  /\ ~parsed.run

(***************************************************************************)
(* tokenize() is one sequential loop: an iteration that can run does run.  *)
(***************************************************************************)
MaxFairSource == 3

FairSourceInputs == UNION {SourcesOfLength(n) : n \in 0..MaxFairSource} \cup SampleSources

InitTokenizeFair ==
  /\ tokenizer \in {NewTokenizer(code) : code \in FairSourceInputs}
  /\ interp = InterpInit
  /\ analyzer = AnalyzerInit
  /\ status = "running"
  /\ lastStmt = 0
  /\ nstmts = 0
  /\ tokens = <<>>
  /\ parsed = NotParsed
  /\ program = <<>>
  /\ outcomes = <<>>

SpecTokenizeFair == InitTokenizeFair /\ [][NextTokenize]_vars /\ WF_vars(NextTokenize)

TokenizeEnded == tokenizer.status \in {"returned", "thrown"}

\* C30: tokenize terminates on every finite text: every iteration of the
\* scan consumes at least one character or throws the TokenizationError, the
\* position never passes the end of the text, and the call returns or throws.
C30_TokenizeTerminates ==
  /\ [][tokenizer.position < Len(tokenizer.code) =>
          \/ /\ tokenizer'.status = "running"
             /\ tokenizer'.position > tokenizer.position
             /\ tokenizer'.position <= Len(tokenizer.code)
          \/ /\ tokenizer'.status = "thrown"
             /\ tokenizer'.position = tokenizer.position]_vars
  /\ <>TokenizeEnded

\* the scan of a text longer than MaxFairSource, with a string over two lines
\* and a line comment, has reached the end of the text and returned
C30_AssignmentScanned ==
  /\ tokenizer.status = "returned"
  /\ tokenizer.code = AssignmentSource
  /\ Len(tokenizer.code) > MaxFairSource
  /\ tokenizer.position = Len(tokenizer.code)
  /\ Len(tokenizer.returned) > 1

====
